---- MODULE Spec2Model ----
(***************************************************************************)
(* A model of the ADT lowering of crates/ra_hir_def/src/adt.rs and of the  *)
(* expression validator of crates/ra_hir_ty/src/expr.rs.                   *)
(*                                                                         *)
(* Conventions.  An Option is a sequence of length 0 (None) or 1 (Some).   *)
(* An Arena is a sequence; the arena id of the element at position p is    *)
(* the 0-based raw index p - 1.  An ArenaMap is a function whose domain is *)
(* a set of raw ids.                                                       *)
(***************************************************************************)
EXTENDS Integers, Sequences, FiniteSets, TLC

VARIABLES
    src,        \* adt: the syntax of the definition under analysis
    data,       \* adt: results of the *_data_query runs, one Option per run
    childSrc,   \* adt: result of the latest child_source call, an Option
    found,      \* adt: result of the latest VariantData::field call, an Option
    body,       \* validator: the lowered function body (db.body)
    infer,      \* validator: the InferenceResult
    source_map, \* validator: the BodySourceMap
    resolver,   \* validator: what resolve_known_enum answers for the function
    sink,       \* validator: the DiagnosticSink, a sequence of diagnostics
    oracle_log, \* validator: the calls made to the usefulness oracle, in order
    validated,  \* validator: TRUE once validate_body has run
    missing,    \* validator: the results of record_literal_missing_fields and
                \* record_pattern_missing_fields, an Option each
    edit        \* syntax: the node under IndentLevel::increase_indent and
                \* decrease_indent, with the level and the steps taken

vars ==
    <<src, data, childSrc, found, body, infer, source_map, resolver, sink, oracle_log,
      validated, missing, edit>>

adtVars == <<src, data, childSrc, found>>
editVars == <<edit>>
validatorVars ==
    <<body, infer, source_map, resolver, sink, oracle_log, validated, missing>>

----------------------------------------------------------------------------
(* Bounds of the model *)

MaxFields == 2
MaxVariants == 2
MaxLitFields == 2
MaxArms == 2
MaxTyParams == 3

----------------------------------------------------------------------------
(* Options, arenas *)

NoEdit == [level |-> 0, orig |-> <<>>, node |-> <<>>, step |-> "none"]

None == <<>>
Some(v) == <<v>>
IsSome(o) == Len(o) = 1
IsNone(o) == Len(o) = 0
Unwrap(o) == o[1]
Opt(S) == {None} \cup {Some(s) : s \in S}

SeqsUpTo(S, n) == UNION {[1..k -> S] : k \in 0..n}

ArenaIds(arena) == 0..(Len(arena) - 1)
ArenaGet(arena, id) == arena[id + 1]

----------------------------------------------------------------------------
(* Names (hir_expand::name) *)

Name_missing == [tag |-> "Missing", text |-> "", idx |-> 0]
as_name(text) == [tag |-> "Text", text |-> text, idx |-> 0]
Name_new_tuple_field(i) == [tag |-> "TupleField", text |-> "", idx |-> i]

TypeRef_from_ast_opt(node) ==
    IF IsSome(node) THEN [tag |-> "Path", text |-> Unwrap(node)]
    ELSE [tag |-> "Error", text |-> ""]

RawVisibility_from_ast(node) ==
    IF IsSome(node) THEN [tag |-> "Public"] ELSE [tag |-> "Private"]

----------------------------------------------------------------------------
(* Concrete syntax the lowering consumes.  A field node carries its        *)
(* position in its list, which is what tells two nodes with the same       *)
(* attributes apart.                                                       *)

FieldNames == {"x", "y"}
TypeTexts == {"T"}
VisTexts == {"pub"}
DefNames == {"S"}
VariantNames == {"A"}

RecordFieldAttrs ==
    [name : Opt(FieldNames), type_ref : Opt(TypeTexts), visibility : Opt(VisTexts)]
TupleFieldAttrs ==
    [name : {None}, type_ref : Opt(TypeTexts), visibility : Opt(VisTexts)]
FieldNode(attrs, pos) ==
    [pos |-> pos, name |-> attrs.name, type_ref |-> attrs.type_ref,
     visibility |-> attrs.visibility]

FieldLists(Attrs, n) ==
    {[i \in 1..Len(a) |-> FieldNode(a[i], i - 1)] : a \in SeqsUpTo(Attrs, n)}

\* ast::StructKind
AstStructKinds(RecAttrs, TupAttrs, n) ==
    {[tag |-> "Unit", fields |-> <<>>]}
    \cup {[tag |-> "Tuple", fields |-> fl] : fl \in FieldLists(TupAttrs, n)}
    \cup {[tag |-> "Record", fields |-> fl] : fl \in FieldLists(RecAttrs, n)}

StructDefs ==
    {[def |-> "struct", name |-> nm, kind |-> k, variant_list |-> None] :
        nm \in Opt(DefNames),
        k \in AstStructKinds(RecordFieldAttrs, TupleFieldAttrs, MaxFields)}

\* a union has a record field list or none: kind.tag is never "Tuple"
UnionDefs ==
    {[def |-> "union", name |-> nm, kind |-> k, variant_list |-> None] :
        nm \in Opt(DefNames),
        k \in {s \in AstStructKinds(RecordFieldAttrs, TupleFieldAttrs, MaxFields) :
                 s.tag # "Tuple"}}

\* the field lists of enum variants: fields of variants take no visibility
VariantField(pos, name) ==
    [pos |-> pos, name |-> name, type_ref |-> Some("T"), visibility |-> None]

VariantKinds ==
    {[tag |-> "Unit", fields |-> <<>>],
     [tag |-> "Tuple", fields |-> <<>>],
     [tag |-> "Tuple", fields |-> <<VariantField(0, None), VariantField(1, None)>>],
     [tag |-> "Record", fields |-> <<>>],
     [tag |-> "Record", fields |-> <<VariantField(0, Some("x"))>>],
     [tag |-> "Record", fields |-> <<VariantField(0, None)>>],
     [tag |-> "Record", fields |-> <<VariantField(0, Some("x")), VariantField(1, None)>>]}

EnumVariantNodes == [name : Opt(VariantNames), kind : VariantKinds]

VariantLists ==
    {[i \in 1..Len(a) |-> [pos |-> i - 1, name |-> a[i].name, kind |-> a[i].kind]] :
        a \in SeqsUpTo(EnumVariantNodes, MaxVariants)}

EnumDefs ==
    {[def |-> "enum", name |-> nm, kind |-> [tag |-> "Unit", fields |-> <<>>],
      variant_list |-> vl] :
        nm \in Opt(DefNames), vl \in Opt(VariantLists)}

\* a union whose field list is lowered as a tuple list
union_kind_tuple(s) ==
    IF s.kind.tag = "Record" THEN [tag |-> "Tuple", fields |-> s.kind.fields]
    ELSE [tag |-> "Unit", fields |-> <<>>]

\* ast::UnionDef::record_field_def_list().map(Record).unwrap_or(Unit)
union_kind(s) ==
    IF s.kind.tag = "Record" THEN s.kind ELSE [tag |-> "Unit", fields |-> <<>>]

----------------------------------------------------------------------------
(* Trace: an arena and a position-aligned collection of syntax nodes *)

Trace_new_for_arena == [arena |-> <<>>, map |-> <<>>]
Trace_new_for_map == [arena |-> <<>>, map |-> <<>>]

Trace_alloc(trace, syntax, value) ==
    [arena |-> Append(trace.arena, value), map |-> Append(trace.map, syntax)]

Trace_into_arena(trace) == trace.arena
Trace_into_map(trace) == [id \in ArenaIds(trace.map) |-> ArenaGet(trace.map, id)]

----------------------------------------------------------------------------
(* lower_struct *)

\* tuple fields named from one
TupleFieldData_one_based(i, fd) ==
    [name |-> Name_new_tuple_field(i + 1),
     type_ref |-> TypeRef_from_ast_opt(fd.type_ref),
     visibility |-> RawVisibility_from_ast(fd.visibility)]

TupleFieldData(i, fd) ==
    [name |-> Name_new_tuple_field(i),
     type_ref |-> TypeRef_from_ast_opt(fd.type_ref),
     visibility |-> RawVisibility_from_ast(fd.visibility)]

\* a record field without a name gets the empty identifier for a name
RecordFieldData_empty_name(fd) ==
    [name |-> IF IsSome(fd.name) THEN as_name(Unwrap(fd.name)) ELSE as_name(""),
     type_ref |-> TypeRef_from_ast_opt(fd.type_ref),
     visibility |-> RawVisibility_from_ast(fd.visibility)]

RecordFieldData(fd) ==
    [name |-> IF IsSome(fd.name) THEN as_name(Unwrap(fd.name)) ELSE Name_missing,
     type_ref |-> TypeRef_from_ast_opt(fd.type_ref),
     visibility |-> RawVisibility_from_ast(fd.visibility)]

RECURSIVE LowerTupleFields(_, _, _)
LowerTupleFields(trace, fl, i) ==
    IF i >= Len(fl) THEN trace
    ELSE LowerTupleFields(
            Trace_alloc(trace, [either |-> "Left", node |-> fl[i + 1]],
                        TupleFieldData(i, fl[i + 1])),
            fl, i + 1)

RECURSIVE LowerRecordFields(_, _, _)
LowerRecordFields(trace, fl, i) ==
    IF i >= Len(fl) THEN trace
    ELSE LowerRecordFields(
            Trace_alloc(trace, [either |-> "Right", node |-> fl[i + 1]],
                        RecordFieldData(fl[i + 1])),
            fl, i + 1)

\* lower_struct that leaves out the record fields that have no name
lower_struct_skip_unnamed(trace, ast) ==
    LET HasName(fd) == IsSome(fd.name) IN
    CASE ast.tag = "Tuple" ->
            [trace |-> LowerTupleFields(trace, ast.fields, 0), kind |-> "Tuple"]
      [] ast.tag = "Record" ->
            [trace |-> LowerRecordFields(trace, SelectSeq(ast.fields, HasName), 0),
             kind |-> "Record"]
      [] OTHER -> [trace |-> trace, kind |-> "Unit"]

\* returns the trace after the walk and the StructKind
lower_struct(trace, ast) ==
    CASE ast.tag = "Tuple" ->
            [trace |-> LowerTupleFields(trace, ast.fields, 0), kind |-> "Tuple"]
      [] ast.tag = "Record" ->
            [trace |-> LowerRecordFields(trace, ast.fields, 0), kind |-> "Record"]
      [] OTHER -> [trace |-> trace, kind |-> "Unit"]

\* VariantData::new that takes a field list without fields for no field list
VariantData_new_empty_is_unit(flavor) ==
    LET r == lower_struct(Trace_new_for_arena, flavor) IN
    CASE r.kind = "Tuple" /\ flavor.fields # <<>> ->
            [tag |-> "Tuple", fields |-> Trace_into_arena(r.trace)]
      [] r.kind = "Record" /\ flavor.fields # <<>> ->
            [tag |-> "Record", fields |-> Trace_into_arena(r.trace)]
      [] OTHER -> [tag |-> "Unit", fields |-> <<>>]

VariantData_new(flavor) ==
    LET r == lower_struct(Trace_new_for_arena, flavor) IN
    CASE r.kind = "Tuple" -> [tag |-> "Tuple", fields |-> Trace_into_arena(r.trace)]
      [] r.kind = "Record" -> [tag |-> "Record", fields |-> Trace_into_arena(r.trace)]
      [] OTHER -> [tag |-> "Unit", fields |-> <<>>]

\* fields() that gives a Unit one placeholder field
VariantData_fields_unit_placeholder(vd) ==
    IF vd.tag \in {"Record", "Tuple"} THEN vd.fields
    ELSE <<[name |-> Name_missing,
            type_ref |-> TypeRef_from_ast_opt(None),
            visibility |-> RawVisibility_from_ast(None)]>>

VariantData_fields(vd) ==
    IF vd.tag \in {"Record", "Tuple"} THEN vd.fields ELSE <<>>

\* iter().find_map(..) from arena id on
RECURSIVE find_field(_, _, _)
find_field(fields, name, id) ==
    IF id >= Len(fields) THEN None
    ELSE IF ArenaGet(fields, id).name = name THEN Some(id)
    ELSE find_field(fields, name, id + 1)

\* field() that keeps the last field of that name
VariantData_field_last(vd, name) ==
    LET fields == VariantData_fields(vd)
        hits == {id \in ArenaIds(fields) : ArenaGet(fields, id).name = name}
    IN  IF hits = {} THEN None
        ELSE Some(CHOOSE id \in hits : \A other \in hits : other <= id)

VariantData_field(vd, name) == find_field(VariantData_fields(vd), name, 0)

\* VariantData::kind
VariantData_kind(vd) ==
    CASE vd.tag = "Record" -> "Record"
      [] vd.tag = "Tuple" -> "Tuple"
      [] OTHER -> "Unit"

\* a missing name made unique per call, numbered by the queries already answered
DefName_fresh_missing(s) ==
    IF IsSome(s.name) THEN as_name(Unwrap(s.name))
    ELSE [tag |-> "Missing", text |-> "",
          idx |-> Cardinality({r \in DOMAIN data : IsSome(data[r])})]

\* name().map_or_else(Name::missing, |n| n.as_name())
DefName(s) == IF IsSome(s.name) THEN as_name(Unwrap(s.name)) ELSE Name_missing

struct_data_query(s) ==
    [name |-> DefName(s), variant_data |-> VariantData_new(s.kind)]

union_data_query(s) ==
    [name |-> DefName(s), variant_data |-> VariantData_new(union_kind(s))]

RECURSIVE LowerVariants(_, _, _)
LowerVariants(trace, vl, i) ==
    IF i >= Len(vl) THEN trace
    ELSE LowerVariants(
            Trace_alloc(trace, vl[i + 1],
                        [name |-> DefName(vl[i + 1]),
                         variant_data |-> VariantData_new(vl[i + 1].kind)]),
            vl, i + 1)

\* variant_list().into_iter().flat_map(|it| it.variants())
lower_enum(trace, ast) ==
    IF IsSome(ast.variant_list) THEN LowerVariants(trace, Unwrap(ast.variant_list), 0)
    ELSE trace

enum_data_query(s) ==
    [name |-> DefName(s),
     variants |-> Trace_into_arena(lower_enum(Trace_new_for_arena, s))]

EnumId_child_source(s) == Trace_into_map(lower_enum(Trace_new_for_map, s))

\* child_source that reads the fields of the first variant for every variant
VariantId_child_source_first_variant(s, id) ==
    LET flavor ==
            CASE id.tag = "EnumVariantId" -> EnumId_child_source(s)[0].kind
              [] id.tag = "StructId" -> s.kind
              [] OTHER -> union_kind(s)
    IN Trace_into_map(lower_struct(Trace_new_for_map, flavor).trace)

\* VariantId::child_source; id is [tag, local_id]
VariantId_child_source(s, id) ==
    LET flavor ==
            CASE id.tag = "EnumVariantId" -> EnumId_child_source(s)[id.local_id].kind
              [] id.tag = "StructId" -> s.kind
              [] OTHER -> union_kind(s)
    IN Trace_into_map(lower_struct(Trace_new_for_map, flavor).trace)

----------------------------------------------------------------------------
(* The definitions the validated function can name (the DefDatabase the    *)
(* validator reads): struct Point { x: T, y: T }, union U { x: T, y: T },  *)
(* enum E { A, B { y: T } }.                                               *)

NamedField(pos, name) ==
    [pos |-> pos, name |-> Some(name), type_ref |-> Some("T"), visibility |-> None]

PointDef ==
    [def |-> "struct", name |-> Some("Point"),
     kind |-> [tag |-> "Record",
               fields |-> <<NamedField(0, "x"), NamedField(1, "y")>>],
     variant_list |-> None]

UDef ==
    [def |-> "union", name |-> Some("U"),
     kind |-> [tag |-> "Record",
               fields |-> <<NamedField(0, "x"), NamedField(1, "y")>>],
     variant_list |-> None]

EDef ==
    [def |-> "enum", name |-> Some("E"), kind |-> [tag |-> "Unit", fields |-> <<>>],
     variant_list |->
        Some(<<[pos |-> 0, name |-> Some("A"),
                kind |-> [tag |-> "Unit", fields |-> <<>>]],
               [pos |-> 1, name |-> Some("B"),
                kind |-> [tag |-> "Record", fields |-> <<NamedField(0, "y")>>]]>>)]

PointId == [tag |-> "StructId", local_id |-> 0]
UId == [tag |-> "UnionId", local_id |-> 0]
EBId == [tag |-> "EnumVariantId", local_id |-> 1]
CrateVariantIds == {PointId, UId, EBId}

\* utils::variant_data
variant_data(var) ==
    CASE var.tag = "StructId" -> struct_data_query(PointDef).variant_data
      [] var.tag = "UnionId" -> union_data_query(UDef).variant_data
      [] OTHER -> ArenaGet(enum_data_query(EDef).variants, var.local_id).variant_data

----------------------------------------------------------------------------
(* Types (Ty, TypeCtor) *)

TypeCtor_Adt_Enum(enum) == [kind |-> "Adt", id |-> enum]
TypeCtor_Bool == [kind |-> "Bool", id |-> ""]
TypeCtor_I32 == [kind |-> "Int", id |-> ""]
TypeCtor_Ref == [kind |-> "Ref", id |-> ""]

Ty_Apply(ctor, parameters) == [tag |-> "Apply", ctor |-> ctor, parameters |-> parameters]
Ty_Unknown == [tag |-> "Unknown", ctor |-> [kind |-> "", id |-> ""], parameters |-> <<>>]

TyBool == Ty_Apply(TypeCtor_Bool, <<>>)
TyI32 == Ty_Apply(TypeCtor_I32, <<>>)
TyRef(ty) == Ty_Apply(TypeCtor_Ref, <<ty>>)

\* Ty::as_reference, without the mutability
as_reference(ty) ==
    IF ty.tag = "Apply" /\ ty.ctor = TypeCtor_Ref THEN Some(ty.parameters[1]) ELSE None

StdResultEnum == "std::result::Result"
OtherEnum == "std::option::Option"

----------------------------------------------------------------------------
(* Body, inference result and source map accessors *)

ExprOf(id) == ArenaGet(body.exprs, id)
PatOf(id) == ArenaGet(body.pats, id)

type_of_expr_get(id) == ArenaGet(infer.type_of_expr, id)
type_of_pat_get(id) == ArenaGet(infer.type_of_pat, id)
variant_resolution_for_expr(id) == ArenaGet(infer.variant_resolution_for_expr, id)
variant_resolution_for_pat(id) == ArenaGet(infer.variant_resolution_for_pat, id)
type_mismatch_for_expr(id) == ArenaGet(infer.type_mismatches, id)

expr_syntax(id) == ArenaGet(source_map, id)

NoPtr == [node |-> "", of |-> 0]
AstPtr_new(node, of) == [node |-> node, of |-> of]

MissingFields(file, field_list, missed_fields) ==
    [kind |-> "MissingFields", file |-> file, ptr |-> field_list, ptr2 |-> NoPtr,
     missed_fields |-> missed_fields]
MissingMatchArms(file, match_expr, arms) ==
    [kind |-> "MissingMatchArms", file |-> file, ptr |-> match_expr, ptr2 |-> arms,
     missed_fields |-> <<>>]
MissingOkInTailExpr(file, expr) ==
    [kind |-> "MissingOkInTailExpr", file |-> file, ptr |-> expr, ptr2 |-> NoPtr,
     missed_fields |-> <<>>]

----------------------------------------------------------------------------
(* The pattern-usefulness oracle (_match::is_useful) on a wildcard row.    *)
(* Patterns: the literals true and false, the wildcard, and a range        *)
(* pattern, a shape the check is not implemented for.                      *)

ScrutineeValues == {"true", "false"}

PatMatches(pat, v) ==
    \/ pat.tag = "Wild"
    \/ pat.tag = "Lit" /\ pat.lit = v

is_useful_wild(seen) ==
    IF \E k \in 1..Len(seen) : PatOf(seen[k]).tag \notin {"Wild", "Lit"}
    THEN "NotImplemented"
    ELSE IF \E v \in ScrutineeValues :
                \A k \in 1..Len(seen) : ~PatMatches(PatOf(seen[k]), v)
         THEN "Useful"
         ELSE "NotUseful"

----------------------------------------------------------------------------
(* record_literal_missing_fields *)

IdSeq(arena) == [k \in 1..Len(arena) |-> k - 1]

\* the filter turned round: the declared fields the literal does name
missed_fields_of_inverted(vd, fields) ==
    LET specified_fields == {fields[k] : k \in 1..Len(fields)}
        Named(f) == ArenaGet(VariantData_fields(vd), f).name \in specified_fields
    IN SelectSeq(IdSeq(VariantData_fields(vd)), Named)

\* lines 216-223: the declared fields whose name the literal does not give
missed_fields_of(vd, fields) ==
    LET specified_fields == {fields[k] : k \in 1..Len(fields)}
        Missed(f) == ArenaGet(VariantData_fields(vd), f).name \notin specified_fields
    IN SelectSeq(IdSeq(VariantData_fields(vd)), Missed)

\* lines 216-227 without the test for an empty list
missing_of_variant_keep_empty(variant_def, expr) ==
    Some([variant_def |-> variant_def,
          missed_fields |-> missed_fields_of(variant_data(variant_def), expr.fields),
          exhaustive |-> IsNone(expr.spread)])

\* lines 216-227, for a resolved variant
missing_of_variant(variant_def, expr) ==
    LET missed == missed_fields_of(variant_data(variant_def), expr.fields) IN
    IF missed = <<>> THEN None
    ELSE Some([variant_def |-> variant_def, missed_fields |-> missed,
               exhaustive |-> IsNone(expr.spread)])

\* record_literal_missing_fields without the test for a union
record_literal_missing_fields_with_unions(id, expr) ==
    IF expr.tag # "RecordLit" THEN None
    ELSE IF IsNone(variant_resolution_for_expr(id)) THEN None
    ELSE missing_of_variant(Unwrap(variant_resolution_for_expr(id)), expr)

record_literal_missing_fields(id, expr) ==
    IF expr.tag # "RecordLit" THEN None
    ELSE
        LET variant_def == variant_resolution_for_expr(id) IN
        IF IsNone(variant_def) THEN None
        ELSE IF Unwrap(variant_def).tag = "UnionId" THEN None
        ELSE missing_of_variant(Unwrap(variant_def), expr)

\* lines 246-251: the declared fields whose name the pattern does not give,
\* kept from the last declared to the first
missed_fields_of_pat_reversed(vd, args) ==
    LET specified_fields == {args[k] : k \in 1..Len(args)}
        Missed(f) == ArenaGet(VariantData_fields(vd), f).name \notin specified_fields
        missed == SelectSeq(IdSeq(VariantData_fields(vd)), Missed)
    IN  [k \in 1..Len(missed) |-> missed[Len(missed) + 1 - k]]

\* lines 246-251: the declared fields whose name the pattern does not give
missed_fields_of_pat(vd, args) ==
    LET specified_fields == {args[k] : k \in 1..Len(args)}
        Missed(f) == ArenaGet(VariantData_fields(vd), f).name \notin specified_fields
    IN  SelectSeq(IdSeq(VariantData_fields(vd)), Missed)

\* record_pattern_missing_fields with the missing fields of unions
record_pattern_missing_fields_with_unions(id, pat) ==
    IF pat.tag # "Record" THEN None
    ELSE
        LET variant_def == variant_resolution_for_pat(id) IN
        IF IsNone(variant_def) THEN None
        ELSE
            LET missed_fields ==
                    missed_fields_of_pat(variant_data(Unwrap(variant_def)), pat.args)
            IN  IF missed_fields = <<>> THEN None
                ELSE Some([variant_def |-> Unwrap(variant_def),
                           missed_fields |-> missed_fields])

record_pattern_missing_fields(id, pat) ==
    IF pat.tag # "Record" THEN None
    ELSE
        LET variant_def == variant_resolution_for_pat(id) IN
        IF IsNone(variant_def) THEN None
        ELSE IF Unwrap(variant_def).tag = "UnionId" THEN None
        ELSE
            LET missed_fields ==
                    missed_fields_of_pat(variant_data(Unwrap(variant_def)), pat.args)
            IN  IF missed_fields = <<>> THEN None
                ELSE Some([variant_def |-> Unwrap(variant_def),
                           missed_fields |-> missed_fields])

----------------------------------------------------------------------------
(* ExprValidator.  The state threaded through validate_body is the sink    *)
(* and the log of oracle calls.                                            *)

Push(st, diagnostic) == [st EXCEPT !.sink = Append(@, diagnostic)]

\* lines 52-73 of validate_body: report the missing fields r of expression id
report_missing_fields(st, id, r) ==
    LET source_ptr == expr_syntax(id)
        fields == VariantData_fields(variant_data(r.variant_def))
        missed == r.missed_fields
    IN  IF /\ source_ptr.ok
           /\ source_ptr.side = "Left"
           /\ source_ptr.kind = "RecordLit"
           /\ source_ptr.field_list
        THEN Push(st, MissingFields(
                    source_ptr.file,
                    AstPtr_new("RecordFieldList", source_ptr.node),
                    [k \in 1..Len(missed) |-> ArenaGet(fields, missed[k]).name]))
        ELSE st

\* the record-literal check that takes Some((_, _, _)) for Some((_, _, true))
validate_record_lit_any_exhaustive(st, id) ==
    LET r == record_literal_missing_fields(id, ExprOf(id)) IN
    IF IsSome(r) THEN report_missing_fields(st, id, Unwrap(r)) ELSE st

\* lines 49-74 of validate_body: the record-literal check on one expression
validate_record_lit(st, id) ==
    LET r == record_literal_missing_fields(id, ExprOf(id)) IN
    IF IsSome(r) /\ Unwrap(r).exhaustive
    THEN report_missing_fields(st, id, Unwrap(r))
    ELSE st

\* only the arms whose type is the very type of the scrutinee
MatrixRowIncluded_exact(pat, match_expr_ty) ==
    LET pat_ty == type_of_pat_get(pat) IN
    IsSome(pat_ty) /\ Unwrap(pat_ty) = match_expr_ty

\* lines 114-130: the condition under which an arm's pattern enters the matrix
MatrixRowIncluded(pat, match_expr_ty) ==
    LET pat_ty == type_of_pat_get(pat) IN
    /\ IsSome(pat_ty)
    /\ \/ Unwrap(pat_ty) = match_expr_ty
       \/ LET inner == as_reference(match_expr_ty) IN
          IF IsSome(inner) THEN Unwrap(inner) = Unwrap(pat_ty) ELSE FALSE

\* lines 104-138: the matrix of the arms that are included, in arm order
matrix_of(match_expr_ty, arms) ==
    LET Included(pat) == MatrixRowIncluded(pat, match_expr_ty) IN
    SelectSeq(arms, Included)

LogOracleCall(st, id, seen, outcome) ==
    [st EXCEPT !.oracle_log =
        Append(@, [id |-> id, seen |-> seen, outcome |-> outcome])]

\* MissingMatchArms pushed without looking at what expr_syntax answers
report_missing_arms_unchecked(st, id) ==
    LET source_ptr == expr_syntax(id) IN
    Push(st, MissingMatchArms(
                source_ptr.file,
                AstPtr_new("Expr", source_ptr.node),
                AstPtr_new("MatchArmList", source_ptr.node)))

\* lines 149-164: push MissingMatchArms if the match maps back to its syntax
report_missing_arms(st, id) ==
    LET source_ptr == expr_syntax(id) IN
    IF /\ source_ptr.ok
       /\ source_ptr.side = "Left"
       /\ source_ptr.kind = "MatchExpr"
       /\ source_ptr.expr
       /\ source_ptr.arm_list
    THEN Push(st, MissingMatchArms(
                source_ptr.file,
                AstPtr_new("Expr", source_ptr.node),
                AstPtr_new("MatchArmList", source_ptr.node)))
    ELSE st

\* lines 103-164: validate_match once the type of the scrutinee is known
check_exhaustive(st, id, match_expr_ty, arms) ==
    LET seen == matrix_of(match_expr_ty, arms)
        outcome == is_useful_wild(seen)
        st1 == LogOracleCall(st, id, seen, outcome)
    IN  IF outcome # "Useful" THEN st1 ELSE report_missing_arms(st1, id)

\* validate_match that returns only for Ok(NotUseful)
validate_match_lenient(st, id, match_expr, arms) ==
    LET match_expr_ty == type_of_expr_get(match_expr) IN
    IF IsNone(match_expr_ty) THEN st
    ELSE
        LET seen == matrix_of(Unwrap(match_expr_ty), arms)
            outcome == is_useful_wild(seen)
            st1 == LogOracleCall(st, id, seen, outcome)
        IN  IF outcome = "NotUseful" THEN st1 ELSE report_missing_arms(st1, id)

\* validate_match that gives up when some arm has no inferred type
validate_match_skip_unresolved(st, id, match_expr, arms) ==
    LET match_expr_ty == type_of_expr_get(match_expr) IN
    IF IsNone(match_expr_ty) THEN st
    ELSE IF \E k \in 1..Len(arms) : IsNone(type_of_pat_get(arms[k])) THEN st
    ELSE check_exhaustive(st, id, Unwrap(match_expr_ty), arms)

\* validate_match that takes an unknown scrutinee type for Ty::Unknown
validate_match_unknown_scrutinee(st, id, match_expr, arms) ==
    LET match_expr_ty == type_of_expr_get(match_expr) IN
    check_exhaustive(st, id,
                     IF IsNone(match_expr_ty) THEN Ty_Unknown ELSE Unwrap(match_expr_ty),
                     arms)

validate_match(st, id, match_expr, arms) ==
    LET match_expr_ty == type_of_expr_get(match_expr) IN
    IF IsNone(match_expr_ty) THEN st
    ELSE check_exhaustive(st, id, Unwrap(match_expr_ty), arms)

\* lines 189-195: push MissingOkInTailExpr if the tail maps back to an expression
report_missing_ok(st, id) ==
    LET source_ptr == expr_syntax(id) IN
    IF source_ptr.ok /\ source_ptr.side = "Left"
    THEN Push(st, MissingOkInTailExpr(
                source_ptr.file, AstPtr_new(source_ptr.kind, source_ptr.node)))
    ELSE st

\* the tail check without the test that there are two parameters
validate_results_in_tail_expr_any_arity(st, body_id, id) ==
    LET mismatch == type_mismatch_for_expr(body_id) IN
    IF IsNone(mismatch) THEN st
    ELSE IF IsNone(resolver) THEN st
    ELSE
        LET expected == Unwrap(mismatch).expected IN
        IF ~(expected.tag = "Apply"
             /\ expected.ctor = TypeCtor_Adt_Enum(Unwrap(resolver))) THEN st
        ELSE IF /\ Len(expected.parameters) >= 1
                /\ expected.parameters[1] = Unwrap(mismatch).actual
        THEN report_missing_ok(st, id)
        ELSE st

\* the tail check keyed on the mismatch recorded for the tail expression
validate_results_in_tail_expr_keyed_on_tail(st, body_id, id) ==
    LET mismatch == type_mismatch_for_expr(id) IN
    IF IsNone(mismatch) THEN st
    ELSE IF IsNone(resolver) THEN st
    ELSE
        LET std_result_ctor == TypeCtor_Adt_Enum(Unwrap(resolver))
            expected == Unwrap(mismatch).expected
            actual == Unwrap(mismatch).actual
        IN  IF ~(expected.tag = "Apply" /\ expected.ctor = std_result_ctor) THEN st
            ELSE IF Len(expected.parameters) = 2 /\ expected.parameters[1] = actual
            THEN report_missing_ok(st, id)
            ELSE st

\* the tail check that takes std::result::Result for granted when the
\* resolver does not find it
validate_results_in_tail_expr_assume_result(st, body_id, id) ==
    LET mismatch == type_mismatch_for_expr(body_id) IN
    IF IsNone(mismatch) THEN st
    ELSE
        LET std_result_ctor == TypeCtor_Adt_Enum(StdResultEnum)
            expected == Unwrap(mismatch).expected
            actual == Unwrap(mismatch).actual
        IN  IF ~(expected.tag = "Apply" /\ expected.ctor = std_result_ctor) THEN st
            ELSE IF Len(expected.parameters) = 2 /\ expected.parameters[1] = actual
            THEN report_missing_ok(st, id)
            ELSE st

validate_results_in_tail_expr(st, body_id, id) ==
    LET mismatch == type_mismatch_for_expr(body_id) IN
    IF IsNone(mismatch) THEN st
    ELSE IF IsNone(resolver) THEN st
    ELSE
        LET std_result_ctor == TypeCtor_Adt_Enum(Unwrap(resolver))
            expected == Unwrap(mismatch).expected
            actual == Unwrap(mismatch).actual
        IN  IF ~(expected.tag = "Apply" /\ expected.ctor = std_result_ctor) THEN st
            ELSE IF Len(expected.parameters) = 2 /\ expected.parameters[1] = actual
            THEN report_missing_ok(st, id)
            ELSE st

\* one iteration of the loop of validate_body
validate_expr(st, id) ==
    LET st1 == validate_record_lit(st, id)
        expr == ExprOf(id)
    IN  IF expr.tag = "Match" THEN validate_match(st1, id, expr.expr, expr.arms)
        ELSE st1

\* the loop that gives up at the first record literal or match for which
\* nothing was pushed
RECURSIVE validate_exprs_stop_at_skip(_, _)
validate_exprs_stop_at_skip(st, id) ==
    IF id >= Len(body.exprs) THEN st
    ELSE
        LET st1 == validate_expr(st, id) IN
        IF ExprOf(id).tag \in {"RecordLit", "Match"} /\ st1.sink = st.sink THEN st1
        ELSE validate_exprs_stop_at_skip(st1, id + 1)

RECURSIVE validate_exprs(_, _)
validate_exprs(st, id) ==
    IF id >= Len(body.exprs) THEN st
    ELSE validate_exprs(validate_expr(st, id), id + 1)

\* validate_body that checks the root expression itself when it is no block
\* with a tail
validate_body_root_as_tail(st) ==
    LET st1 == validate_exprs(st, 0)
        body_expr == ExprOf(body.body_expr)
    IN  IF body_expr.tag = "Block" /\ IsSome(body_expr.tail)
        THEN validate_results_in_tail_expr(st1, body.body_expr, Unwrap(body_expr.tail))
        ELSE validate_results_in_tail_expr(st1, body.body_expr, body.body_expr)

\* validate_body with the tail check ahead of the loop
validate_body_tail_first(st) ==
    LET body_expr == ExprOf(body.body_expr)
        st1 == IF body_expr.tag = "Block" /\ IsSome(body_expr.tail)
               THEN validate_results_in_tail_expr(st, body.body_expr,
                                                  Unwrap(body_expr.tail))
               ELSE st
    IN  validate_exprs(st1, 0)

\* validate_body that starts from an empty sink
validate_body_fresh_sink(st) ==
    LET st1 == validate_exprs([st EXCEPT !.sink = <<>>], 0)
        body_expr == ExprOf(body.body_expr)
    IN  IF body_expr.tag = "Block" /\ IsSome(body_expr.tail)
        THEN validate_results_in_tail_expr(st1, body.body_expr, Unwrap(body_expr.tail))
        ELSE st1

validate_body(st) ==
    LET st1 == validate_exprs(st, 0)
        body_expr == ExprOf(body.body_expr)
    IN  IF body_expr.tag = "Block" /\ IsSome(body_expr.tail)
        THEN validate_results_in_tail_expr(st1, body.body_expr, Unwrap(body_expr.tail))
        ELSE st1

----------------------------------------------------------------------------
(* The ADT queries as actions on the definition chosen at Init *)

Runs == {1, 2}

\* the VariantIds of the definition s
VariantIdsOf(s) ==
    CASE s.def = "struct" -> {[tag |-> "StructId", local_id |-> 0]}
      [] s.def = "union" -> {[tag |-> "UnionId", local_id |-> 0]}
      [] OTHER -> {[tag |-> "EnumVariantId", local_id |-> i] :
                     i \in ArenaIds(enum_data_query(s).variants)}

NoBody == [exprs |-> <<>>, pats |-> <<>>, body_expr |-> 0]
NoInfer ==
    [type_of_expr |-> <<>>, type_of_pat |-> <<>>,
     variant_resolution_for_expr |-> <<>>, type_mismatches |-> <<>>]

ValidatorIdle ==
    /\ body = NoBody
    /\ infer = NoInfer
    /\ source_map = <<>>
    /\ resolver = None
    /\ sink = <<>>
    /\ oracle_log = <<>>
    /\ validated = FALSE
    /\ missing = [lit |-> None, pat |-> None]

InitAdt ==
    /\ src \in StructDefs \cup UnionDefs \cup EnumDefs
    /\ data = [r \in Runs |-> None]
    /\ childSrc = None
    /\ found = None
    /\ edit = NoEdit
    /\ ValidatorIdle

\* the runs are interchangeable: run r follows run r - 1
RunIsNext(r) == IsNone(data[r]) /\ \A q \in Runs : q < r => IsSome(data[q])

StructDataQuery(r) ==
    /\ src.def = "struct"
    /\ RunIsNext(r)
    /\ data' = [data EXCEPT ![r] = Some(struct_data_query(src))]
    /\ UNCHANGED <<src, childSrc, found>>
    /\ UNCHANGED validatorVars
    /\ UNCHANGED editVars

UnionDataQuery(r) ==
    /\ src.def = "union"
    /\ RunIsNext(r)
    /\ data' = [data EXCEPT ![r] = Some(union_data_query(src))]
    /\ UNCHANGED <<src, childSrc, found>>
    /\ UNCHANGED validatorVars
    /\ UNCHANGED editVars

EnumDataQuery(r) ==
    /\ src.def = "enum"
    /\ RunIsNext(r)
    /\ data' = [data EXCEPT ![r] = Some(enum_data_query(src))]
    /\ UNCHANGED <<src, childSrc, found>>
    /\ UNCHANGED validatorVars
    /\ UNCHANGED editVars

EnumChildSource ==
    /\ src.def = "enum"
    /\ childSrc' = Some([of |-> "variants",
                         id |-> [tag |-> "EnumId", local_id |-> 0],
                         map |-> EnumId_child_source(src)])
    /\ UNCHANGED <<src, data, found>>
    /\ UNCHANGED validatorVars
    /\ UNCHANGED editVars

VariantChildSource(id) ==
    /\ id \in VariantIdsOf(src)
    /\ childSrc' = Some([of |-> "fields", id |-> id,
                         map |-> VariantId_child_source(src, id)])
    /\ UNCHANGED <<src, data, found>>
    /\ UNCHANGED validatorVars
    /\ UNCHANGED editVars

VariantIdUniverse ==
    {[tag |-> "StructId", local_id |-> 0], [tag |-> "UnionId", local_id |-> 0]}
    \cup {[tag |-> "EnumVariantId", local_id |-> i] : i \in 0..(MaxVariants - 1)}

NextAdt ==
    \/ \E r \in Runs : StructDataQuery(r)
    \/ \E r \in Runs : UnionDataQuery(r)
    \/ \E r \in Runs : EnumDataQuery(r)
    \/ EnumChildSource
    \/ \E id \in VariantIdUniverse : VariantChildSource(id)

SpecAdt == InitAdt /\ [][NextAdt]_vars

\* the names VariantData::field is asked for
LookupNames ==
    {Name_missing}
    \cup {as_name(n) : n \in FieldNames}
    \cup {Name_new_tuple_field(i) : i \in 0..(MaxFields - 1)}

\* fields() and field(name) on the VariantData of variant id of the result
\* of the data query; one lookup is followed
FieldLookup(id, name) ==
    /\ IsSome(data[1])
    /\ IsNone(found)
    /\ id \in VariantIdsOf(src)
    /\ LET d == Unwrap(data[1])
           vd == IF id.tag = "EnumVariantId"
                 THEN ArenaGet(d.variants, id.local_id).variant_data
                 ELSE d.variant_data
       IN  found' = Some([id |-> id, name |-> name,
                          fields |-> VariantData_fields(vd),
                          kind |-> VariantData_kind(vd),
                          field |-> VariantData_field(vd, name)])
    /\ UNCHANGED <<src, data, childSrc>>
    /\ UNCHANGED validatorVars
    /\ UNCHANGED editVars

NextField ==
    \/ StructDataQuery(1)
    \/ UnionDataQuery(1)
    \/ EnumDataQuery(1)
    \/ \E id \in VariantIdUniverse : \E name \in LookupNames : FieldLookup(id, name)

SpecField == InitAdt /\ [][NextField]_vars

----------------------------------------------------------------------------
(* The validator: bodies, inference results and source maps drawn at Init, *)
(* and validate_body as one action.                                        *)

Expr_Plain(tag) ==
    [tag |-> tag, fields |-> <<>>, spread |-> None, expr |-> 0, arms |-> <<>>,
     tail |-> None]
Expr_RecordLit(fields, spread) ==
    [tag |-> "RecordLit", fields |-> fields, spread |-> spread, expr |-> 0,
     arms |-> <<>>, tail |-> None]
Expr_Match(expr, arms) ==
    [tag |-> "Match", fields |-> <<>>, spread |-> None, expr |-> expr, arms |-> arms,
     tail |-> None]
Expr_Block(tail) ==
    [tag |-> "Block", fields |-> <<>>, spread |-> None, expr |-> 0, arms |-> <<>>,
     tail |-> tail]

Pat_Wild == [tag |-> "Wild", lit |-> ""]
Pat_Lit(v) == [tag |-> "Lit", lit |-> v]
Pat_Range == [tag |-> "Range", lit |-> ""]
PatShapes == {Pat_Wild, Pat_Lit("true"), Pat_Lit("false"), Pat_Range}

FileId == "main.rs"

\* what BodySourceMap::expr_syntax answers for one expression
SrcEntry(ok, side, kind, node, field_list, expr, arm_list) ==
    [ok |-> ok, file |-> FileId, side |-> side, kind |-> kind, node |-> node,
     field_list |-> field_list, expr |-> expr, arm_list |-> arm_list]
SrcSynthetic(node) == SrcEntry(FALSE, "Left", "Other", node, FALSE, FALSE, FALSE)
SrcPlain(node) == SrcEntry(TRUE, "Left", "Other", node, FALSE, FALSE, FALSE)
SrcRecordField(node) == SrcEntry(TRUE, "Right", "Other", node, FALSE, FALSE, FALSE)

RecordLitSrcEntries(node) ==
    {SrcSynthetic(node), SrcRecordField(node), SrcPlain(node),
     SrcEntry(TRUE, "Left", "RecordLit", node, FALSE, FALSE, FALSE),
     SrcEntry(TRUE, "Left", "RecordLit", node, TRUE, FALSE, FALSE)}

MatchSrcEntries(node) ==
    {SrcSynthetic(node), SrcRecordField(node), SrcPlain(node)}
    \cup {SrcEntry(TRUE, "Left", "MatchExpr", node, FALSE, e, a) :
            e \in BOOLEAN, a \in BOOLEAN}

TailSrcEntries(node) == {SrcSynthetic(node), SrcRecordField(node), SrcPlain(node)}

LitNames == {as_name(n) : n \in FieldNames}

AdtIdle ==
    /\ src = PointDef
    /\ data = [r \in Runs |-> None]
    /\ childSrc = None
    /\ found = None
    /\ edit = NoEdit

ValidatorStart ==
    /\ sink = <<>>
    /\ oracle_log = <<>>
    /\ validated = FALSE
    /\ missing = [lit |-> None, pat |-> None]

\* fn f() { P { <fields> [, ..rest] } }
InitLit ==
    /\ AdtIdle
    /\ ValidatorStart
    /\ \E fields \in SeqsUpTo(LitNames, MaxLitFields),
          spread \in {None, Some(0)},
          variant \in Opt(CrateVariantIds),
          entry \in RecordLitSrcEntries(1) :
        /\ body = [exprs |-> <<Expr_Plain("Path"), Expr_RecordLit(fields, spread),
                               Expr_Block(Some(1))>>,
                   pats |-> <<>>, body_expr |-> 2]
        /\ infer = [type_of_expr |-> <<None, None, None>>,
                    type_of_pat |-> <<>>,
                    variant_resolution_for_expr |-> <<None, variant, None>>,
                    type_mismatches |-> <<None, None, None>>]
        /\ source_map = <<SrcPlain(0), entry, SrcPlain(2)>>
    /\ resolver = Some(StdResultEnum)

ScrutineeTys == {TyBool, TyRef(TyBool), TyRef(TyRef(TyBool))}
PatTys == {TyBool, TyRef(TyBool)}

\* fn f() { match b { <arms> } }
InitMatch ==
    /\ AdtIdle
    /\ ValidatorStart
    /\ \E pats \in SeqsUpTo(PatShapes, MaxArms),
          scrutinee_ty \in Opt(ScrutineeTys),
          entry \in MatchSrcEntries(1) :
        \E pat_tys \in [1..Len(pats) -> Opt(PatTys)] :
            /\ body = [exprs |-> <<Expr_Plain("Path"), Expr_Match(0, IdSeq(pats)),
                                   Expr_Block(Some(1))>>,
                       pats |-> pats, body_expr |-> 2]
            /\ infer = [type_of_expr |-> <<scrutinee_ty, None, None>>,
                        type_of_pat |-> pat_tys,
                        variant_resolution_for_expr |-> <<None, None, None>>,
                        type_mismatches |-> <<None, None, None>>]
            /\ source_map = <<SrcPlain(0), entry, SrcPlain(2)>>
    /\ resolver = Some(StdResultEnum)

ParamTys == {TyI32, TyBool}
ExpectedTys ==
    {Ty_Unknown}
    \cup {Ty_Apply(TypeCtor_Adt_Enum(e), ps) :
            e \in {StdResultEnum, OtherEnum}, ps \in SeqsUpTo(ParamTys, MaxTyParams)}
Mismatches ==
    {m \in [expected : ExpectedTys, actual : ParamTys] : m.expected # m.actual}
\* a mismatch that would ask for Ok(..) were it recorded for the block
OkMismatch == [expected |-> Ty_Apply(TypeCtor_Adt_Enum(StdResultEnum), <<TyI32, TyBool>>),
               actual |-> TyI32]

\* fn f() -> R { <tail> }, or a body whose root is no block with a tail
InitTail ==
    /\ AdtIdle
    /\ ValidatorStart
    /\ \E root \in {Expr_Block(Some(0)), Expr_Block(None), Expr_Plain("Path")},
          block_mismatch \in Opt(Mismatches),
          tail_mismatch \in {None, Some(OkMismatch)},
          entry \in TailSrcEntries(0) :
        /\ body = [exprs |-> <<Expr_Plain("Literal"), root>>, pats |-> <<>>,
                   body_expr |-> 1]
        /\ infer = [type_of_expr |-> <<None, None>>,
                    type_of_pat |-> <<>>,
                    variant_resolution_for_expr |-> <<None, None>>,
                    type_mismatches |-> <<tail_mismatch, block_mismatch>>]
        /\ source_map = <<entry, SrcPlain(1)>>
    /\ resolver \in Opt({StdResultEnum})

----------------------------------------------------------------------------
(* Bodies with several checked expressions.  An item is a record literal   *)
(* or a match together with what inference and the source map know about   *)
(* it; each item has one child expression, the scrutinee of a match or an  *)
(* operand of a literal.  The body block holds the items either one after  *)
(* the other, { it1; ..; itk }, or one inside the other, itk being the     *)
(* outermost, { itk(.. it1 ..) }.  The arena is in construction order: an  *)
(* expression is allocated after the expressions it contains.  The node of *)
(* a source map entry is the position of the expression in a pre-order     *)
(* walk of the syntax tree of the body.                                    *)

BodyItem(tag, fields, spread, pat, scrutinee_ty, variant, entry) ==
    [tag |-> tag, fields |-> fields, spread |-> spread, pat |-> pat,
     scrutinee_ty |-> scrutinee_ty, variant |-> variant, entry |-> entry]

GoodLitEntry == SrcEntry(TRUE, "Left", "RecordLit", 0, TRUE, FALSE, FALSE)
GoodMatchEntry == SrcEntry(TRUE, "Left", "MatchExpr", 0, FALSE, TRUE, TRUE)

\* what expr_syntax answers for the items whose diagnostic is due
LitItemEntries ==
    {SrcRecordField(0), SrcPlain(0),
     SrcEntry(TRUE, "Left", "RecordLit", 0, FALSE, FALSE, FALSE), GoodLitEntry}
MatchItemEntries ==
    {SrcSynthetic(0)}
    \cup {SrcEntry(TRUE, "Left", "MatchExpr", 0, FALSE, e, a) :
            e \in BOOLEAN, a \in BOOLEAN}

LitItems ==
    {BodyItem("RecordLit", <<as_name("x")>>, FALSE, Pat_Wild, None, Some(PointId), e) :
        e \in LitItemEntries}
    \cup {BodyItem("RecordLit", <<as_name("x"), as_name("y")>>, FALSE, Pat_Wild, None,
                   Some(PointId), GoodLitEntry),
          BodyItem("RecordLit", <<as_name("x")>>, TRUE, Pat_Wild, None,
                   Some(PointId), GoodLitEntry),
          BodyItem("RecordLit", <<as_name("x")>>, FALSE, Pat_Wild, None,
                   None, GoodLitEntry)}

MatchItems ==
    {BodyItem("Match", <<>>, FALSE, Pat_Lit("true"), Some(TyBool), None, e) :
        e \in MatchItemEntries}
    \cup {BodyItem("Match", <<>>, FALSE, Pat_Lit("true"), None, None, GoodMatchEntry),
          BodyItem("Match", <<>>, FALSE, Pat_Wild, Some(TyBool), None, GoodMatchEntry),
          BodyItem("Match", <<>>, FALSE, Pat_Range, Some(TyBool), None, GoodMatchEntry)}

BodyItems ==
    LitItems \cup MatchItems
    \cup {BodyItem("Path", <<>>, FALSE, Pat_Wild, None, None, SrcPlain(0))}

MaxBodyItems == 2

Layouts == {"Seq", "Nested"}

\* arena ids and syntax positions of item i of k and of its child
ItemId(layout, k, i) == IF layout = "Seq" THEN 2 * i - 1 ELSE k + i - 1
ChildId(layout, k, i) == IF layout = "Seq" THEN 2 * i - 2 ELSE k - i
ItemNode(layout, k, i) == IF layout = "Seq" THEN 2 * i - 1 ELSE 1 + 2 * (k - i)
ChildNode(layout, k, i) == ItemNode(layout, k, i) + 1

ItemExpr(it, child, i) ==
    CASE it.tag = "RecordLit" ->
            Expr_RecordLit(it.fields, IF it.spread THEN Some(child) ELSE None)
      [] it.tag = "Match" -> Expr_Match(child, <<i - 1>>)
      [] OTHER -> Expr_Plain(it.tag)

\* the body, inference result and source map of the items in the layout
BodyOf(items, layout, has_tail) ==
    LET k == Len(items)
        IsItem(id) == \E i \in 1..k : ItemId(layout, k, i) = id
        ItemAt(id) == CHOOSE i \in 1..k : ItemId(layout, k, i) = id
        ChildAt(id) == CHOOSE i \in 1..k : ChildId(layout, k, i) = id
    IN  [exprs |->
            [p \in 1..(2 * k + 1) |->
                IF p - 1 = 2 * k
                THEN Expr_Block(IF has_tail THEN Some(ItemId(layout, k, k)) ELSE None)
                ELSE IF IsItem(p - 1)
                THEN ItemExpr(items[ItemAt(p - 1)],
                              ChildId(layout, k, ItemAt(p - 1)), ItemAt(p - 1))
                ELSE Expr_Plain("Path")],
         pats |-> [i \in 1..k |-> items[i].pat],
         body_expr |-> 2 * k]

InferOf(items, layout, block_mismatch) ==
    LET k == Len(items)
        IsItem(id) == \E i \in 1..k : ItemId(layout, k, i) = id
        ItemAt(id) == CHOOSE i \in 1..k : ItemId(layout, k, i) = id
        ChildAt(id) == CHOOSE i \in 1..k : ChildId(layout, k, i) = id
    IN  [type_of_expr |->
            [p \in 1..(2 * k + 1) |->
                IF p - 1 = 2 * k \/ IsItem(p - 1) THEN None
                ELSE items[ChildAt(p - 1)].scrutinee_ty],
         type_of_pat |-> [i \in 1..k |-> Some(TyBool)],
         variant_resolution_for_expr |->
            [p \in 1..(2 * k + 1) |->
                IF IsItem(p - 1) THEN items[ItemAt(p - 1)].variant ELSE None],
         type_mismatches |->
            [p \in 1..(2 * k + 1) |-> IF p - 1 = 2 * k THEN block_mismatch ELSE None]]

SourceMapOf(items, layout) ==
    LET k == Len(items)
        IsItem(id) == \E i \in 1..k : ItemId(layout, k, i) = id
        ItemAt(id) == CHOOSE i \in 1..k : ItemId(layout, k, i) = id
        ChildAt(id) == CHOOSE i \in 1..k : ChildId(layout, k, i) = id
    IN  [p \in 1..(2 * k + 1) |->
            IF p - 1 = 2 * k THEN SrcPlain(0)
            ELSE IF IsItem(p - 1)
            THEN [items[ItemAt(p - 1)].entry EXCEPT
                    !.node = ItemNode(layout, k, ItemAt(p - 1))]
            ELSE SrcPlain(ChildNode(layout, k, ChildAt(p - 1)))]

\* the struct_data_query of Point is answered and cached
AdtAnswered ==
    /\ src = PointDef
    /\ data = [r \in Runs |-> Some(struct_data_query(PointDef))]
    /\ childSrc = None
    /\ found = None
    /\ edit = NoEdit

\* a diagnostic of another file that is in the sink before the run
PriorDiagnostic ==
    MissingFields("lib.rs", AstPtr_new("RecordFieldList", 1), <<as_name("x")>>)

InitBody ==
    /\ AdtAnswered
    /\ oracle_log = <<>>
    /\ validated = FALSE
    /\ missing = [lit |-> None, pat |-> None]
    /\ sink \in {<<>>, <<PriorDiagnostic>>}
    /\ \E k \in 1..MaxBodyItems :
        \E items \in [1..k -> BodyItems],
           layout \in Layouts,
           has_tail \in BOOLEAN,
           block_mismatch \in {None, Some(OkMismatch)} :
            /\ layout = "Nested" => (has_tail /\ k >= 2)
            /\ body = BodyOf(items, layout, has_tail)
            /\ infer = InferOf(items, layout, block_mismatch)
            /\ source_map = SourceMapOf(items, layout)
    /\ resolver = Some(StdResultEnum)

ValidateBody ==
    /\ ~validated
    /\ LET st == validate_body([sink |-> sink, oracle_log |-> oracle_log]) IN
        /\ sink' = st.sink
        /\ oracle_log' = st.oracle_log
    /\ validated' = TRUE
    /\ UNCHANGED <<body, infer, source_map, resolver, missing>>
    /\ UNCHANGED adtVars
    /\ UNCHANGED editVars

NextValidator == ValidateBody

----------------------------------------------------------------------------
(* record_literal_missing_fields and record_pattern_missing_fields called  *)
(* on a record literal and a record pattern of one body.                   *)

Pat_Record(args) == [tag |-> "Record", lit |-> "", args |-> args]

EAId == [tag |-> "EnumVariantId", local_id |-> 0]
MissingVariantIds == CrateVariantIds \cup {EAId}

\* fn f() { let <pattern> = <expression>; }
InitMissing ==
    /\ AdtIdle
    /\ ValidatorStart
    /\ \E expr \in {Expr_Plain("Path")}
                    \cup {Expr_RecordLit(fields, spread) :
                            fields \in SeqsUpTo(LitNames, MaxLitFields),
                            spread \in {None, Some(0)}},
          pat \in {Pat_Wild} \cup {Pat_Record(args) : args \in SeqsUpTo(LitNames, MaxLitFields)},
          expr_variant \in Opt(MissingVariantIds),
          pat_variant \in Opt(MissingVariantIds) :
        /\ body = [exprs |-> <<Expr_Plain("Path"), expr, Expr_Block(None)>>,
                   pats |-> <<pat>>, body_expr |-> 2]
        /\ infer = [type_of_expr |-> <<None, None, None>>,
                    type_of_pat |-> <<None>>,
                    variant_resolution_for_expr |-> <<None, expr_variant, None>>,
                    variant_resolution_for_pat |-> <<pat_variant>>,
                    type_mismatches |-> <<None, None, None>>]
        /\ source_map = <<SrcPlain(0), SrcPlain(1), SrcPlain(2)>>
    /\ resolver = Some(StdResultEnum)

RecordLiteralMissingFields ==
    /\ IsNone(missing.lit)
    /\ missing' = [missing EXCEPT
                    !.lit = Some(record_literal_missing_fields(1, ExprOf(1)))]
    /\ UNCHANGED <<body, infer, source_map, resolver, sink, oracle_log, validated>>
    /\ UNCHANGED adtVars
    /\ UNCHANGED editVars

RecordPatternMissingFields ==
    /\ IsNone(missing.pat)
    /\ missing' = [missing EXCEPT
                    !.pat = Some(record_pattern_missing_fields(0, PatOf(0)))]
    /\ UNCHANGED <<body, infer, source_map, resolver, sink, oracle_log, validated>>
    /\ UNCHANGED adtVars
    /\ UNCHANGED editVars

NextMissing == RecordLiteralMissingFields \/ RecordPatternMissingFields

SpecMissing == InitMissing /\ [][NextMissing]_vars

SpecLit == InitLit /\ [][NextValidator]_vars
SpecMatch == InitMatch /\ [][NextValidator]_vars
SpecTail == InitTail /\ [][NextValidator]_vars
SpecBody == InitBody /\ [][NextValidator]_vars

----------------------------------------------------------------------------
(* IndentLevel::increase_indent and decrease_indent (ra_syntax, ast/edit).  *)
(* A node is the sequence of its tokens, a token a kind and a text, a text  *)
(* a sequence of characters.                                                *)

NL == "\n"
SP == " "
IndentWidth == 4

Spaces(n) == [i \in 1..n |-> SP]
Token(kind, text) == [kind |-> kind, text |-> text]

\* ast::Whitespace::cast
IsWhitespace(token) == token.kind = "WHITESPACE"
\* text.contains('\n')
ContainsNewline(text) == \E i \in 1..Len(text) : text[i] = NL

IsPrefix(pat, text) ==
    /\ Len(pat) <= Len(text)
    /\ \A i \in 1..Len(pat) : text[i] = pat[i]

\* str::replace: every match of pat, found from left to right without
\* overlap, gives way to to
RECURSIVE str_replace(_, _, _)
str_replace(text, pat, to) ==
    IF text = <<>> THEN <<>>
    ELSE IF IsPrefix(pat, text)
    THEN to \o str_replace(SubSeq(text, Len(pat) + 1, Len(text)), pat, to)
    ELSE <<Head(text)>> \o str_replace(Tail(text), pat, to)

\* increase_indent that indents every whitespace token
increase_indent_every_whitespace(level, node) ==
    [i \in 1..Len(node) |->
        IF IsWhitespace(node[i])
        THEN Token("WHITESPACE", node[i].text \o Spaces(level * IndentWidth))
        ELSE node[i]]

increase_indent(level, node) ==
    [i \in 1..Len(node) |->
        IF IsWhitespace(node[i]) /\ ContainsNewline(node[i].text)
        THEN Token("WHITESPACE", node[i].text \o Spaces(level * IndentWidth))
        ELSE node[i]]

decrease_indent(level, node) ==
    [i \in 1..Len(node) |->
        IF IsWhitespace(node[i]) /\ ContainsNewline(node[i].text)
        THEN Token("WHITESPACE",
                   str_replace(node[i].text, <<NL>> \o Spaces(level * IndentWidth),
                               <<NL>>))
        ELSE node[i]]

MaxLevel == 2
MaxNewlines == 2

\* the indentations that follow a newline in the sampled whitespace
IndentSamples == {0, 2, 4}

RECURSIVE LinesText(_)
LinesText(ks) ==
    IF ks = <<>> THEN <<>> ELSE <<NL>> \o Spaces(Head(ks)) \o LinesText(Tail(ks))

\* whitespace tokens: up to one space, then up to MaxNewlines newlines each
\* followed by spaces
WhitespaceTokens ==
    {Token("WHITESPACE", Spaces(s0) \o LinesText(ks)) :
        s0 \in {0, 1}, ks \in SeqsUpTo(IndentSamples, MaxNewlines)}
    \ {Token("WHITESPACE", <<>>)}

\* tokens that are no whitespace; the string has a newline in it
CodeTokens ==
    {Token("UNDERSCORE", <<"_">>),
     Token("STRING", <<"'", NL, SP, SP, SP, SP, "'">>)}

\* { <ws> <token> <ws> }
EditNodes ==
    {<<Token("L_CURLY", <<"{">>), ws1, tok, ws2, Token("R_CURLY", <<"}">>)>> :
        ws1 \in WhitespaceTokens, tok \in CodeTokens, ws2 \in WhitespaceTokens}

InitIndent ==
    /\ src = PointDef
    /\ data = [r \in Runs |-> None]
    /\ childSrc = None
    /\ found = None
    /\ ValidatorIdle
    /\ \E level \in 0..MaxLevel, node \in EditNodes :
        edit = [level |-> level, orig |-> node, node |-> node, step |-> "new"]

IncreaseIndent ==
    /\ edit.step = "new"
    /\ edit' = [edit EXCEPT !.node = increase_indent(edit.level, edit.node),
                            !.step = "increased"]
    /\ UNCHANGED adtVars
    /\ UNCHANGED validatorVars

DecreaseIndent ==
    /\ edit.step \in {"new", "increased"}
    /\ edit' = [edit EXCEPT !.node = decrease_indent(edit.level, edit.node),
                            !.step = IF edit.step = "new" THEN "decreased"
                                     ELSE "restored"]
    /\ UNCHANGED adtVars
    /\ UNCHANGED validatorVars

NextIndent == IncreaseIndent \/ DecreaseIndent

SpecIndent == InitIndent /\ [][NextIndent]_vars

----------------------------------------------------------------------------
(* Properties of the lowering *)

\* the syntactic field list of variant id of definition s
SyntaxFieldsOf(s, id) ==
    IF id.tag = "EnumVariantId"
    THEN Unwrap(s.variant_list)[id.local_id + 1].kind.fields
    ELSE s.kind.fields

\* the field arena of variant id in the result d of the definition's data query
FieldArenaOf(d, id) ==
    IF id.tag = "EnumVariantId"
    THEN VariantData_fields(ArenaGet(d.variants, id.local_id).variant_data)
    ELSE VariantData_fields(d.variant_data)

\* field data fd, allocated at index i, was built from the source map entry e
BuiltFrom(fd, e, i) ==
    /\ e.either = "Left" =>
            fd.name = [tag |-> "TupleField", text |-> "", idx |-> i]
    /\ e.either = "Right" =>
            fd.name = IF e.node.name = <<>>
                      THEN [tag |-> "Missing", text |-> "", idx |-> 0]
                      ELSE [tag |-> "Text", text |-> e.node.name[1], idx |-> 0]
    /\ fd.type_ref = IF e.node.type_ref = <<>>
                     THEN [tag |-> "Error", text |-> ""]
                     ELSE [tag |-> "Path", text |-> e.node.type_ref[1]]
    /\ fd.visibility.tag = IF e.node.visibility = <<>> THEN "Private" ELSE "Public"

FieldSourceKnown == IsSome(childSrc) /\ Unwrap(childSrc).of = "fields"
VariantSourceKnown == IsSome(childSrc) /\ Unwrap(childSrc).of = "variants"

\* C1: for a field list of n syntactic fields, the field arena of the data
\* query and the map of VariantId::child_source both have the index set
\* 0..n-1, and entry i of the map is the i-th field node, from which arena
\* entry i was built.
C1_ArenaAndSourceMapAligned ==
    \A r \in Runs :
        (IsSome(data[r]) /\ FieldSourceKnown) =>
            LET id == Unwrap(childSrc).id
                map == Unwrap(childSrc).map
                fl == SyntaxFieldsOf(src, id)
                arena == FieldArenaOf(Unwrap(data[r]), id)
            IN  /\ Len(arena) = Len(fl)
                /\ DOMAIN map = 0..(Len(fl) - 1)
                /\ \A i \in 0..(Len(fl) - 1) :
                        /\ map[i].node = fl[i + 1]
                        /\ map[i].node.pos = i
                        /\ BuiltFrom(arena[i + 1], map[i], i)

C1_Witness ==
    /\ src.def = "struct"
    /\ src.kind.tag = "Record"
    /\ Len(src.kind.fields) >= 2
    /\ src.kind.fields[1].name = None
    /\ IsSome(data[1])
    /\ FieldSourceKnown
    /\ DOMAIN Unwrap(childSrc).map = {0, 1}

----------------------------------------------------------------------------
(* Properties of the validator *)

ExprIds == ArenaIds(body.exprs)
RecordLitIds == {id \in ExprIds : body.exprs[id + 1].tag = "RecordLit"}
MatchIds == {id \in ExprIds : body.exprs[id + 1].tag = "Match"}

\* the definition syntax a variant id of the crate stands for
CrateDef(variant) ==
    CASE variant.tag = "StructId" -> PointDef
      [] variant.tag = "UnionId" -> UDef
      [] OTHER -> EDef

\* the names the syntax of the variant declares, in declaration order
DeclaredNames(variant) ==
    LET s == CrateDef(variant)
        kind == IF variant.tag = "EnumVariantId"
                THEN Unwrap(s.variant_list)[variant.local_id + 1].kind
                ELSE s.kind
    IN  [k \in 1..Len(kind.fields) |->
            IF kind.tag = "Tuple" THEN [tag |-> "TupleField", text |-> "", idx |-> k - 1]
            ELSE IF kind.fields[k].name = <<>>
                 THEN [tag |-> "Missing", text |-> "", idx |-> 0]
                 ELSE [tag |-> "Text", text |-> kind.fields[k].name[1], idx |-> 0]]

\* the declared names the literal id does not give, in declaration order
ExpectedMissing(id) ==
    LET given == {body.exprs[id + 1].fields[k] :
                    k \in 1..Len(body.exprs[id + 1].fields)}
        NotGiven(n) == n \notin given
    IN  SelectSeq(DeclaredNames(infer.variant_resolution_for_expr[id + 1][1]), NotGiven)

ResolvedNonUnion(id) ==
    /\ infer.variant_resolution_for_expr[id + 1] # <<>>
    /\ infer.variant_resolution_for_expr[id + 1][1].tag # "UnionId"

MapsToRecordLitWithFieldList(id) ==
    /\ source_map[id + 1].ok
    /\ source_map[id + 1].side = "Left"
    /\ source_map[id + 1].kind = "RecordLit"
    /\ source_map[id + 1].field_list

\* the positions in the sink of the MissingFields diagnostics of expression id
MissingFieldsOf(id) ==
    {k \in 1..Len(sink) :
        /\ sink[k].kind = "MissingFields"
        /\ sink[k].ptr = [node |-> "RecordFieldList", of |-> source_map[id + 1].node]}

MissingFieldsDue(id) ==
    /\ id \in RecordLitIds
    /\ body.exprs[id + 1].spread = <<>>
    /\ ResolvedNonUnion(id)
    /\ ExpectedMissing(id) # <<>>
    /\ MapsToRecordLitWithFieldList(id)

\* C3: validate_body reports MissingFields for an expression exactly when it
\* is a record literal without spread whose variant is resolved and no union,
\* some declared field is not named, and the expression maps back to a record
\* literal with a field list; the diagnostic carries that field list and the
\* names of the missing fields in declaration order.
C3_MissingFieldsReportedExactly ==
    validated =>
        /\ \A id \in ExprIds :
            IF MissingFieldsDue(id)
            THEN /\ Cardinality(MissingFieldsOf(id)) = 1
                 /\ \A k \in MissingFieldsOf(id) :
                        /\ sink[k].file = source_map[id + 1].file
                        /\ sink[k].missed_fields = ExpectedMissing(id)
            ELSE MissingFieldsOf(id) = {}
        /\ \A k \in 1..Len(sink) :
            sink[k].kind = "MissingFields" => \E id \in RecordLitIds : k \in MissingFieldsOf(id)

\* Point { x: 1 } against struct Point { x, y } reports [y]
C3_Witness ==
    /\ validated
    /\ body.exprs[2] = Expr_RecordLit(<<as_name("x")>>, None)
    /\ infer.variant_resolution_for_expr[2] = Some(PointId)
    /\ sink = <<MissingFields(FileId, AstPtr_new("RecordFieldList", 1),
                              <<as_name("y")>>)>>

\* C4: a record literal with a spread never gets a MissingFields diagnostic:
\* record_literal_missing_fields answers None or a list with exhaustive =
\* FALSE, the list being the missing fields, and validate_body pushes nothing.
C4_SpreadSuppressesMissingFields ==
    validated =>
        \A id \in RecordLitIds :
            body.exprs[id + 1].spread # <<>> =>
                LET r == record_literal_missing_fields(id, body.exprs[id + 1]) IN
                /\ MissingFieldsOf(id) = {}
                /\ IsSome(r) => ~Unwrap(r).exhaustive
                /\ IsSome(r) <=> (ResolvedNonUnion(id) /\ ExpectedMissing(id) # <<>>)
                /\ IsSome(r) =>
                    [k \in 1..Len(Unwrap(r).missed_fields) |->
                        DeclaredNames(Unwrap(r).variant_def)[Unwrap(r).missed_fields[k] + 1]]
                    = ExpectedMissing(id)

\* Point { x: 1, ..rest } against struct Point { x, y } reports nothing
C4_Witness ==
    /\ validated
    /\ body.exprs[2] = Expr_RecordLit(<<as_name("x")>>, Some(0))
    /\ infer.variant_resolution_for_expr[2] = Some(PointId)
    /\ MapsToRecordLitWithFieldList(1)
    /\ sink = <<>>

\* C5: for a record literal whose variant is unresolved or a union,
\* record_literal_missing_fields answers None and validate_body pushes no
\* MissingFields, whatever fields are omitted, with or without a spread.
C5_UnresolvedOrUnionSkipped ==
    validated =>
        \A id \in RecordLitIds :
            ~ResolvedNonUnion(id) =>
                /\ IsNone(record_literal_missing_fields(id, body.exprs[id + 1]))
                /\ MissingFieldsOf(id) = {}

\* U { x: 1 } against union U { x, y }, without spread, reports nothing
C5_Witness ==
    /\ validated
    /\ body.exprs[2] = Expr_RecordLit(<<as_name("x")>>, None)
    /\ infer.variant_resolution_for_expr[2] = Some(UId)
    /\ MapsToRecordLitWithFieldList(1)
    /\ sink = <<>>

ScrutineeTy(id) == infer.type_of_expr[body.exprs[id + 1].expr + 1]

\* the positions in the log of the oracle calls made for the match id
OracleCallsOf(id) == {k \in 1..Len(oracle_log) : oracle_log[k].id = id}

\* the positions in the sink of the MissingMatchArms diagnostics of the match id
MissingArmsOf(id) ==
    {k \in 1..Len(sink) :
        /\ sink[k].kind = "MissingMatchArms"
        /\ sink[k].ptr2 = [node |-> "MatchArmList", of |-> source_map[id + 1].node]}

MapsToMatchExpr(id) ==
    /\ source_map[id + 1].ok
    /\ source_map[id + 1].side = "Left"
    /\ source_map[id + 1].kind = "MatchExpr"
    /\ source_map[id + 1].expr
    /\ source_map[id + 1].arm_list

\* C6: for a match whose scrutinee type is known the oracle is asked once; a
\* MissingMatchArms diagnostic is emitted only when it answers Useful, and
\* when it answers Useful and the match maps back to its syntax the
\* diagnostic is emitted, anchored at the scrutinee and the arm list.
C6_MissingArmsOnlyWhenUseful ==
    validated =>
        /\ \A id \in MatchIds :
            IsSome(ScrutineeTy(id)) =>
                /\ Cardinality(OracleCallsOf(id)) = 1
                /\ \A c \in OracleCallsOf(id) :
                    /\ MissingArmsOf(id) # {} => oracle_log[c].outcome = "Useful"
                    /\ oracle_log[c].outcome \in {"NotUseful", "NotImplemented"} =>
                            MissingArmsOf(id) = {}
                    /\ (oracle_log[c].outcome = "Useful" /\ MapsToMatchExpr(id)) =>
                            /\ Cardinality(MissingArmsOf(id)) = 1
                            /\ \A k \in MissingArmsOf(id) :
                                /\ sink[k].file = source_map[id + 1].file
                                /\ sink[k].ptr =
                                    [node |-> "Expr", of |-> source_map[id + 1].node]
        /\ \A k \in 1..Len(sink) :
            sink[k].kind = "MissingMatchArms" => \E id \in MatchIds : k \in MissingArmsOf(id)

\* match b { true => .. } over a boolean reports the missing arms
C6_Witness ==
    /\ validated
    /\ body.pats = <<Pat_Lit("true")>>
    /\ infer.type_of_expr[1] = Some(TyBool)
    /\ infer.type_of_pat = <<Some(TyBool)>>
    /\ oracle_log = <<[id |-> 1, seen |-> <<0>>, outcome |-> "Useful"]>>
    /\ sink = <<MissingMatchArms(FileId, AstPtr_new("Expr", 1),
                                 AstPtr_new("MatchArmList", 1))>>

\* an arm of type pat_ty belongs in the matrix of a scrutinee of type ty
ArmBelongs(pat, ty) ==
    /\ infer.type_of_pat[pat + 1] # <<>>
    /\ \/ infer.type_of_pat[pat + 1][1] = ty
       \/ [tag |-> "Apply", ctor |-> [kind |-> "Ref", id |-> ""],
           parameters |-> <<infer.type_of_pat[pat + 1][1]>>] = ty

\* C7: the matrix handed to the oracle holds, in arm order, exactly the arms
\* whose pattern has an inferred type equal to the scrutinee type or to the
\* scrutinee type with one reference layer removed.
C7_MatrixHoldsMatchingArms ==
    validated =>
        \A id \in MatchIds :
            IsSome(ScrutineeTy(id)) =>
                \A c \in OracleCallsOf(id) :
                    LET Belongs(pat) == ArmBelongs(pat, Unwrap(ScrutineeTy(id))) IN
                    oracle_log[c].seen = SelectSeq(body.exprs[id + 1].arms, Belongs)

\* scrutinee &bool: an arm of type bool is a row, an arm of type &bool is a
\* row; scrutinee && bool: an arm of type bool is not
C7_Witness ==
    /\ validated
    /\ infer.type_of_expr[1] = Some(TyRef(TyBool))
    /\ infer.type_of_pat = <<Some(TyBool), None>>
    /\ oracle_log # <<>>
    /\ oracle_log[1].seen = <<0>>

HasUnresolvedArm(id) ==
    \E k \in 1..Len(body.exprs[id + 1].arms) :
        infer.type_of_pat[body.exprs[id + 1].arms[k] + 1] = <<>>

\* C8, as claimed: a match with an arm that has no inferred pattern type gets
\* no MissingMatchArms diagnostic.
C8_UnresolvedArmSkipsCheck ==
    validated =>
        \A id \in MatchIds : HasUnresolvedArm(id) => MissingArmsOf(id) = {}

\* C8, amended: a match with an arm that has no inferred pattern type is
\* still checked when the scrutinee type is known: the oracle is asked once,
\* no arm without a type is a row of the matrix, and MissingMatchArms is
\* emitted exactly when the oracle answers Useful for the remaining rows and
\* the match maps back to its syntax.
C8_UnresolvedArmLeftOutOfMatrix ==
    validated =>
        \A id \in MatchIds :
            (HasUnresolvedArm(id) /\ IsSome(ScrutineeTy(id))) =>
                /\ Cardinality(OracleCallsOf(id)) = 1
                /\ \A c \in OracleCallsOf(id) :
                    /\ \A k \in 1..Len(oracle_log[c].seen) :
                            infer.type_of_pat[oracle_log[c].seen[k] + 1] # <<>>
                    /\ MissingArmsOf(id) # {} <=>
                            (oracle_log[c].outcome = "Useful" /\ MapsToMatchExpr(id))

\* match b { true => .., <untyped> => .. } over a boolean is reported
C8_Witness ==
    /\ validated
    /\ body.pats = <<Pat_Lit("true"), Pat_Wild>>
    /\ infer.type_of_expr[1] = Some(TyBool)
    /\ infer.type_of_pat = <<Some(TyBool), None>>
    /\ Len(sink) = 1
    /\ sink[1].kind = "MissingMatchArms"

\* C9: when the scrutinee of a match has no inferred type, the oracle is not
\* consulted for that match and no diagnostic is emitted for it.
C9_UnknownScrutineeSkipsMatch ==
    validated =>
        \A id \in MatchIds :
            IsNone(ScrutineeTy(id)) =>
                /\ OracleCallsOf(id) = {}
                /\ MissingArmsOf(id) = {}

C9_Witness ==
    /\ validated
    /\ infer.type_of_expr[1] = None
    /\ body.pats = <<Pat_Lit("true")>>
    /\ infer.type_of_pat = <<Some(TyBool)>>
    /\ MapsToMatchExpr(1)
    /\ sink = <<>>
    /\ oracle_log = <<>>

\* the body's root is a block with a tail expression: the tail check runs
TailChecked ==
    /\ body.exprs[body.body_expr + 1].tag = "Block"
    /\ body.exprs[body.body_expr + 1].tail # <<>>

TailId == body.exprs[body.body_expr + 1].tail[1]

MissingOkDue ==
    /\ infer.type_mismatches[body.body_expr + 1] # <<>>
    /\ resolver # <<>>
    /\ LET m == infer.type_mismatches[body.body_expr + 1][1] IN
        /\ m.expected.tag = "Apply"
        /\ m.expected.ctor = [kind |-> "Adt", id |-> resolver[1]]
        /\ Len(m.expected.parameters) = 2
        /\ m.expected.parameters[1] = m.actual
    /\ source_map[TailId + 1].ok
    /\ source_map[TailId + 1].side = "Left"

MissingOks == {k \in 1..Len(sink) : sink[k].kind = "MissingOkInTailExpr"}

\* C10: the tail check emits MissingOkInTailExpr, anchored at the tail
\* expression, exactly when a mismatch is recorded for the body block,
\* std::result::Result resolves to an enum, the expected type applies that
\* enum to exactly two parameters, the actual type is the first of them, and
\* the tail maps back to an expression pointer.
C10_MissingOkExactly ==
    (validated /\ TailChecked) =>
        IF MissingOkDue
        THEN /\ Cardinality(MissingOks) = 1
             /\ \A k \in MissingOks :
                    /\ sink[k].file = source_map[TailId + 1].file
                    /\ sink[k].ptr = [node |-> source_map[TailId + 1].kind,
                                      of |-> source_map[TailId + 1].node]
        ELSE MissingOks = {}

\* fn f() -> Result<i32, bool> { 1 }
C10_Witness ==
    /\ validated
    /\ TailChecked
    /\ infer.type_mismatches[2] =
        Some([expected |-> Ty_Apply(TypeCtor_Adt_Enum(StdResultEnum), <<TyI32, TyBool>>),
              actual |-> TyI32])
    /\ sink = <<MissingOkInTailExpr(FileId, AstPtr_new("Other", 0))>>

\* C11: when std::result::Result does not resolve to an enum in the scope of
\* the function, no MissingOkInTailExpr is emitted, whatever mismatch is
\* recorded for the body and wherever the tail maps to.
C11_UnresolvedResultSkipsTailCheck ==
    (validated /\ resolver = <<>>) => MissingOks = {}

\* fn f() -> Result<i32, bool> { 1 } where Result does not resolve
C11_Witness ==
    /\ validated
    /\ TailChecked
    /\ resolver = <<>>
    /\ infer.type_mismatches[body.body_expr + 1] = Some(OkMismatch)
    /\ source_map[TailId + 1].ok
    /\ source_map[TailId + 1].side = "Left"
    /\ sink = <<>>

----------------------------------------------------------------------------
(* Properties of validate_body over bodies with several expressions *)

\* the positions in the sink of the diagnostics of this file of the given
\* kind that are anchored at expression id
EmittedAt(id, kind) ==
    {k \in 1..Len(sink) :
        /\ sink[k].file = FileId
        /\ sink[k].kind = kind
        /\ sink[k].ptr.of = source_map[id + 1].node}

\* the typed arms of the match id leave a boolean uncovered, and all of them
\* are patterns the exhaustiveness check handles
ArmsLeaveValue(id) ==
    LET Belongs(pat) == ArmBelongs(pat, ScrutineeTy(id)[1])
        rows == SelectSeq(body.exprs[id + 1].arms, Belongs)
    IN  /\ \A k \in 1..Len(rows) : body.pats[rows[k] + 1].tag \in {"Wild", "Lit"}
        /\ \E v \in {"true", "false"} :
            \A k \in 1..Len(rows) :
                /\ body.pats[rows[k] + 1].tag # "Wild"
                /\ body.pats[rows[k] + 1].lit # v

MissingArmsDueBarMap(id) ==
    /\ id \in MatchIds
    /\ ScrutineeTy(id) # <<>>
    /\ ArmsLeaveValue(id)

MissingFieldsDueBarMap(id) ==
    /\ id \in RecordLitIds
    /\ body.exprs[id + 1].spread = <<>>
    /\ ResolvedNonUnion(id)
    /\ ExpectedMissing(id) # <<>>

MissingOkDueBarMap(id) ==
    /\ TailChecked
    /\ TailId = id
    /\ infer.type_mismatches[body.body_expr + 1] # <<>>
    /\ resolver # <<>>
    /\ LET m == infer.type_mismatches[body.body_expr + 1][1] IN
        /\ m.expected.tag = "Apply"
        /\ m.expected.ctor = [kind |-> "Adt", id |-> resolver[1]]
        /\ Len(m.expected.parameters) = 2
        /\ m.expected.parameters[1] = m.actual

MapsToExpr(id) == source_map[id + 1].ok /\ source_map[id + 1].side = "Left"

Count(due) == IF due THEN 1 ELSE 0

\* expression id got the diagnostics its own facts call for, each once, and
\* a match with a typed scrutinee got its one call of the oracle
ReportedAsDue(id) ==
    /\ Cardinality(EmittedAt(id, "MissingFields")) =
            Count(MissingFieldsDueBarMap(id) /\ MapsToRecordLitWithFieldList(id))
    /\ Cardinality(EmittedAt(id, "MissingMatchArms")) =
            Count(MissingArmsDueBarMap(id) /\ MapsToMatchExpr(id))
    /\ Cardinality(EmittedAt(id, "MissingOkInTailExpr")) =
            Count(MissingOkDueBarMap(id) /\ MapsToExpr(id))
    /\ (id \in MatchIds /\ ScrutineeTy(id) # <<>>) =>
            Cardinality(OracleCallsOf(id)) = 1

\* validate_match returns early for the match id, or the missing-fields check
\* of the record literal id is skipped
CheckSkipped(id) ==
    \/ id \in MatchIds /\ ~MissingArmsDueBarMap(id)
    \/ id \in RecordLitIds /\ (body.exprs[id + 1].spread # <<>> \/ ~ResolvedNonUnion(id))

\* C12: when the check of one expression is skipped (validate_match returns
\* early, or the missing-fields check does not apply), nothing is emitted for
\* that check and every expression of the body, the tail included, still
\* gets exactly the diagnostics its own facts call for.
C12_SkippedCheckSuppressesNothing ==
    validated =>
        \A j \in ExprIds :
            CheckSkipped(j) =>
                /\ j \in MatchIds => EmittedAt(j, "MissingMatchArms") = {}
                /\ j \in RecordLitIds => EmittedAt(j, "MissingFields") = {}
                /\ \A id \in ExprIds : ReportedAsDue(id)

\* { match <untyped> { true => .. }; Point { x: 1 } } in a function that
\* returns Result<i32, bool>: the literal and the tail are reported
C12_Witness ==
    /\ validated
    /\ Len(body.exprs) = 5
    /\ body.exprs[2].tag = "Match"
    /\ infer.type_of_expr[1] = None
    /\ MapsToMatchExpr(1)
    /\ body.exprs[4].tag = "RecordLit"
    /\ TailChecked
    /\ TailId = 3
    /\ Len(sink) = 2
    /\ sink[1].kind = "MissingFields"
    /\ sink[2].kind = "MissingOkInTailExpr"

\* the diagnostics of this run, in the order they were pushed
Emitted ==
    LET InFile(d) == d.file = FileId IN SelectSeq(sink, InFile)

\* the arena id of the expression a diagnostic is anchored at
AnchorId(d) == CHOOSE id \in ExprIds : source_map[id + 1].node = d.ptr.of

\* C13, as claimed: the diagnostics of a run are pushed in the order in which
\* a walk of the syntax tree meets the expressions they are anchored at.
C13_SinkInSyntaxOrder ==
    validated =>
        \A i \in 1..Len(Emitted) : \A j \in 1..Len(Emitted) :
            i < j => Emitted[i].ptr.of <= Emitted[j].ptr.of

\* C13, amended: the MissingFields and MissingMatchArms diagnostics of a run
\* are pushed in arena order of their expressions, in which an expression
\* comes after the expressions it contains, and the MissingOkInTailExpr
\* diagnostic, if any, is pushed last.
C13_SinkInArenaOrderTailLast ==
    validated =>
        \A i \in 1..Len(Emitted) : \A j \in 1..Len(Emitted) :
            i < j =>
                /\ AnchorId(Emitted[i]) <= AnchorId(Emitted[j])
                /\ Emitted[i].kind # "MissingOkInTailExpr"

\* { match b { true => Point { x: 1 } } }: the literal inside the arm is
\* reported first, then the match, then the tail
C13_Witness ==
    /\ validated
    /\ Len(Emitted) = 3
    /\ Emitted[1].kind = "MissingFields"
    /\ Emitted[2].kind = "MissingMatchArms"
    /\ Emitted[3].kind = "MissingOkInTailExpr"
    /\ Emitted[1].ptr.of > Emitted[2].ptr.of
    /\ Emitted[3].ptr.of = Emitted[2].ptr.of

\* the diagnostic of expression id is due but the source map does not lead
\* back to the syntax it needs
SourceMapMiss(id) ==
    \/ MissingFieldsDueBarMap(id) /\ ~MapsToRecordLitWithFieldList(id)
    \/ MissingArmsDueBarMap(id) /\ ~MapsToMatchExpr(id)
    \/ MissingOkDueBarMap(id) /\ ~MapsToExpr(id)

\* C14: when expr_syntax fails for an expression whose diagnostic is due, or
\* gives no expression pointer, or a node of another kind, or a node without
\* its field list, scrutinee or arm list, that diagnostic is not pushed, the
\* run completes, and every other expression still gets its diagnostics.
C14_SourceMapMissDropsOne ==
    validated =>
        \A j \in ExprIds :
            SourceMapMiss(j) =>
                /\ (MissingFieldsDueBarMap(j) /\ ~MapsToRecordLitWithFieldList(j)) =>
                        EmittedAt(j, "MissingFields") = {}
                /\ (MissingArmsDueBarMap(j) /\ ~MapsToMatchExpr(j)) =>
                        EmittedAt(j, "MissingMatchArms") = {}
                /\ (MissingOkDueBarMap(j) /\ ~MapsToExpr(j)) =>
                        EmittedAt(j, "MissingOkInTailExpr") = {}
                /\ \A id \in ExprIds \ {j} : ReportedAsDue(id)
                /\ Len(Emitted) =
                        Cardinality({id \in ExprIds :
                            MissingFieldsDueBarMap(id) /\ MapsToRecordLitWithFieldList(id)})
                        + Cardinality({id \in ExprIds :
                            MissingArmsDueBarMap(id) /\ MapsToMatchExpr(id)})
                        + Cardinality({id \in ExprIds :
                            MissingOkDueBarMap(id) /\ MapsToExpr(id)})

\* { match b { true => .. }; Point { x: 1 } } where the match has no arm
\* list in the syntax: only the literal is reported
C14_Witness ==
    /\ validated
    /\ Len(body.exprs) = 5
    /\ MissingArmsDueBarMap(1)
    /\ source_map[2].ok
    /\ source_map[2].kind = "MatchExpr"
    /\ ~source_map[2].arm_list
    /\ Len(Emitted) = 1
    /\ Emitted[1].kind = "MissingFields"
    /\ AnchorId(Emitted[1]) = 3

\* C15: a step of the validator leaves the body, the inference result, the
\* source map and the ADT data alone, and the sink it leaves has the sink it
\* found as a prefix.
C15_OnlyAppendsToSink ==
    [][/\ body' = body
       /\ infer' = infer
       /\ source_map' = source_map
       /\ src' = src
       /\ data' = data
       /\ Len(sink') >= Len(sink)
       /\ \A k \in 1..Len(sink) : sink'[k] = sink[k]]_vars

\* a run that found a diagnostic in the sink and pushed another behind it
C15_Witness ==
    /\ validated
    /\ Len(sink) >= 2
    /\ sink[1] = PriorDiagnostic
    /\ sink[2].file = FileId
    /\ data[1] # <<>>

----------------------------------------------------------------------------
(* Properties of the builders *)

\* the syntactic kind (field list) of variant id of definition s
SyntaxKindOf(s, id) ==
    IF id.tag = "EnumVariantId"
    THEN Unwrap(s.variant_list)[id.local_id + 1].kind
    ELSE s.kind

\* the VariantData of variant id in the result d of the data query
VariantDataOf(d, id) ==
    IF id.tag = "EnumVariantId"
    THEN ArenaGet(d.variants, id.local_id).variant_data
    ELSE d.variant_data

\* C16: a tuple field list of n fields is lowered to a VariantData tagged
\* Tuple with n fields named 0, 1, .., n-1 in that order, whatever the types
\* and visibilities of the fields.
C16_TupleFieldsNamedByPosition ==
    \A r \in Runs :
        IsSome(data[r]) =>
            \A id \in VariantIdsOf(src) :
                SyntaxKindOf(src, id).tag = "Tuple" =>
                    LET vd == VariantDataOf(Unwrap(data[r]), id)
                        n == Len(SyntaxKindOf(src, id).fields)
                    IN  /\ vd.tag = "Tuple"
                        /\ Len(vd.fields) = n
                        /\ \A i \in 1..n :
                            vd.fields[i].name =
                                [tag |-> "TupleField", text |-> "", idx |-> i - 1]

\* struct S(pub T, <no type>): two fields that differ in type and visibility
C16_Witness ==
    /\ src.def = "struct"
    /\ src.kind.tag = "Tuple"
    /\ Len(src.kind.fields) = 2
    /\ src.kind.fields[1].type_ref # src.kind.fields[2].type_ref
    /\ src.kind.fields[1].visibility # src.kind.fields[2].visibility
    /\ IsSome(data[1])
    /\ Unwrap(data[1]).variant_data.tag = "Tuple"

MissingName == [tag |-> "Missing", text |-> "", idx |-> 0]

\* the name lowered from an optional syntactic name
LoweredName(name) ==
    IF name = <<>> THEN MissingName ELSE [tag |-> "Text", text |-> name[1], idx |-> 0]

\* C17: for every definition syntax the data query returns a value; in it an
\* absent definition, variant or record-field name is the missing-name
\* sentinel, an absent field list is the Unit shape with no fields, and an
\* enum without a variant list has no variants.
C17_BuildersNeverFail ==
    /\ \A r \in Runs :
        RunIsNext(r) =>
            ENABLED (StructDataQuery(r) \/ UnionDataQuery(r) \/ EnumDataQuery(r))
    /\ \A r \in Runs :
        IsSome(data[r]) =>
            LET d == Unwrap(data[r]) IN
            /\ d.name = LoweredName(src.name)
            /\ src.def = "enum" =>
                /\ src.variant_list = <<>> => d.variants = <<>>
                /\ src.variant_list # <<>> =>
                    /\ Len(d.variants) = Len(src.variant_list[1])
                    /\ \A i \in 1..Len(d.variants) :
                        d.variants[i].name = LoweredName(src.variant_list[1][i].name)
            /\ \A id \in VariantIdsOf(src) :
                LET vd == VariantDataOf(d, id)
                    kind == SyntaxKindOf(src, id)
                IN  /\ kind.tag = "Unit" => (vd.tag = "Unit" /\ VariantData_fields(vd) = <<>>)
                    /\ kind.tag = "Record" =>
                        /\ vd.tag = "Record"
                        /\ Len(vd.fields) = Len(kind.fields)
                        /\ \A i \in 1..Len(kind.fields) :
                            /\ vd.fields[i].name = LoweredName(kind.fields[i].name)
                            /\ kind.fields[i].type_ref = <<>> =>
                                    vd.fields[i].type_ref.tag = "Error"

\* struct <no name> { <no name>: <no type>, .. }
C17_Witness ==
    /\ src.def = "struct"
    /\ src.name = None
    /\ src.kind.tag = "Record"
    /\ Len(src.kind.fields) = 2
    /\ src.kind.fields[1].name = None
    /\ src.kind.fields[1].type_ref = None
    /\ IsSome(data[1])
    /\ Unwrap(data[1]).name = MissingName
    /\ Unwrap(data[1]).variant_data.fields[1].name = MissingName

\* C18: the data query of a union gives Record when the union has a record
\* field list and Unit otherwise, never Tuple, and child_source of the union
\* walks the same list: its map has the ids of the field arena and entry i is
\* the i-th record field.
C18_UnionNeverTuple ==
    \A r \in Runs :
        (src.def = "union" /\ IsSome(data[r])) =>
            LET vd == Unwrap(data[r]).variant_data IN
            /\ vd.tag # "Tuple"
            /\ vd.tag = IF src.kind.tag = "Record" THEN "Record" ELSE "Unit"
            /\ FieldSourceKnown =>
                LET map == Unwrap(childSrc).map IN
                /\ DOMAIN map = ArenaIds(VariantData_fields(vd))
                /\ \A i \in DOMAIN map :
                    /\ map[i].either = "Right"
                    /\ map[i].node = src.kind.fields[i + 1]

\* union U { x: T, y: T } after the data query and child_source
C18_Witness ==
    /\ src.def = "union"
    /\ src.kind.tag = "Record"
    /\ Len(src.kind.fields) = 2
    /\ IsSome(data[1])
    /\ Unwrap(data[1]).variant_data.tag = "Record"
    /\ FieldSourceKnown
    /\ DOMAIN Unwrap(childSrc).map = {0, 1}

\* the names the syntax of variant id of definition s declares, in order
DeclaredNamesOf(s, id) ==
    LET kind == SyntaxKindOf(s, id) IN
    [k \in 1..Len(kind.fields) |->
        IF kind.tag = "Tuple" THEN [tag |-> "TupleField", text |-> "", idx |-> k - 1]
        ELSE LoweredName(kind.fields[k].name)]

\* C19: on a Unit, fields() returns the empty arena and field(name) returns
\* none, for every name.
C19_UnitHasNoFields ==
    (IsSome(found) /\ SyntaxKindOf(src, Unwrap(found).id).tag = "Unit") =>
            /\ Unwrap(found).fields = <<>>
            /\ Unwrap(found).field = <<>>

\* struct S; asked for the field of the missing name
C19_Witness ==
    /\ src.def = "struct"
    /\ src.kind.tag = "Unit"
    /\ IsSome(found)
    /\ Unwrap(found).name = MissingName
    /\ Unwrap(found).fields = <<>>
    /\ Unwrap(found).field = <<>>

\* C20: field(name) returns the id of the first field, in declaration order,
\* whose name is name, and none exactly when no field has that name.
C20_FieldIsFirstMatch ==
    IsSome(found) =>
        LET names == DeclaredNamesOf(src, Unwrap(found).id)
            hits == {i \in 0..(Len(names) - 1) : names[i + 1] = Unwrap(found).name}
        IN  /\ Unwrap(found).field = <<>> <=> hits = {}
            /\ hits # {} =>
                /\ Len(Unwrap(found).field) = 1
                /\ Unwrap(found).field[1] \in hits
                /\ \A i \in hits : Unwrap(found).field[1] <= i

\* struct S { <no name>: T, <no name>: T } asked for the missing name: field 0
C20_Witness ==
    /\ src.def = "struct"
    /\ src.kind.tag = "Record"
    /\ Len(src.kind.fields) = 2
    /\ src.kind.fields[1].name = None
    /\ src.kind.fields[2].name = None
    /\ IsSome(found)
    /\ Unwrap(found).name = MissingName
    /\ Unwrap(found).field = <<0>>

----------------------------------------------------------------------------
(* Properties of the missing-fields functions *)

LitAsked == missing.lit # <<>>
PatAsked == missing.pat # <<>>
LitResult == missing.lit[1]
PatResult == missing.pat[1]

LitVariant == infer.variant_resolution_for_expr[2]
PatVariant == infer.variant_resolution_for_pat[1]
LitNamesGiven == {body.exprs[2].fields[k] : k \in 1..Len(body.exprs[2].fields)}
PatNamesGiven == {body.pats[1].args[k] : k \in 1..Len(body.pats[1].args)}

\* the ids of the fields variant declares whose name is not among names
MissingIds(variant, names) ==
    {i \in 0..(Len(DeclaredNames(variant)) - 1) : DeclaredNames(variant)[i + 1] \notin names}

\* C21: for a record literal and a record pattern with the same resolved
\* variant and the same set of specified names, the pattern function answers
\* Some((v, m)) exactly when the literal function answers Some((v, m, _)),
\* and both answer None for an unresolved variant, a union and an empty
\* missing list.
C21_PatternAgreesWithLiteral ==
    (/\ LitAsked
     /\ PatAsked
     /\ body.exprs[2].tag = "RecordLit"
     /\ body.pats[1].tag = "Record"
     /\ LitVariant = PatVariant
     /\ LitNamesGiven = PatNamesGiven) =>
        /\ LitResult = <<>> <=> PatResult = <<>>
        /\ LitResult # <<>> =>
            /\ LitResult[1].variant_def = PatResult[1].variant_def
            /\ LitResult[1].variant_def = LitVariant[1]
            /\ LitResult[1].missed_fields = PatResult[1].missed_fields
        /\ (\/ LitVariant = <<>>
            \/ LitVariant[1].tag = "UnionId"
            \/ MissingIds(LitVariant[1], LitNamesGiven) = {}) =>
                (LitResult = <<>> /\ PatResult = <<>>)

\* Point { x: 1 } and Point { x, x: _ }: both miss y
C21_Witness ==
    /\ LitAsked
    /\ PatAsked
    /\ body.exprs[2] = Expr_RecordLit(<<as_name("x")>>, None)
    /\ body.pats[1] = Pat_Record(<<as_name("x"), as_name("x")>>)
    /\ LitVariant = Some(PointId)
    /\ PatVariant = Some(PointId)
    /\ LitResult # <<>>
    /\ PatResult # <<>>
    /\ LitResult[1].missed_fields = <<1>>
    /\ PatResult[1].missed_fields = <<1>>

\* the list m is the ids of MissingIds(variant, names) in increasing order
IsMissingList(m, variant, names) ==
    /\ \A k \in 1..(Len(m) - 1) : m[k] < m[k + 1]
    /\ {m[k] : k \in 1..Len(m)} = MissingIds(variant, names)

\* C23: the list either function returns is the declared fields whose name
\* is not among the specified names, in strictly increasing id order; names
\* the variant does not declare and repeated names make no difference, and a
\* declared field is in the list exactly when its name is not specified.
C23_MissingListIsDeclaredMinusSpecified ==
    /\ (LitAsked /\ LitResult # <<>>) =>
            /\ IsMissingList(LitResult[1].missed_fields, LitVariant[1], LitNamesGiven)
            /\ \A i \in 0..(Len(DeclaredNames(LitVariant[1])) - 1) :
                (\E k \in 1..Len(LitResult[1].missed_fields) :
                    LitResult[1].missed_fields[k] = i)
                <=> DeclaredNames(LitVariant[1])[i + 1] \notin LitNamesGiven
    /\ (PatAsked /\ PatResult # <<>>) =>
            /\ IsMissingList(PatResult[1].missed_fields, PatVariant[1], PatNamesGiven)
            /\ \A i \in 0..(Len(DeclaredNames(PatVariant[1])) - 1) :
                (\E k \in 1..Len(PatResult[1].missed_fields) :
                    PatResult[1].missed_fields[k] = i)
                <=> DeclaredNames(PatVariant[1])[i + 1] \notin PatNamesGiven
    /\ (LitAsked /\ LitResult = <<>> /\ body.exprs[2].tag = "RecordLit"
        /\ LitVariant # <<>> /\ LitVariant[1].tag # "UnionId") =>
            MissingIds(LitVariant[1], LitNamesGiven) = {}
    /\ (PatAsked /\ PatResult = <<>> /\ body.pats[1].tag = "Record"
        /\ PatVariant # <<>> /\ PatVariant[1].tag # "UnionId") =>
            MissingIds(PatVariant[1], PatNamesGiven) = {}

\* E::B { x: 1, x: 2 } against B { y }: x is not declared and is repeated, y
\* is missing; the pattern Point { } misses x and y in that order
C23_Witness ==
    /\ LitAsked
    /\ PatAsked
    /\ body.exprs[2].tag = "RecordLit"
    /\ body.exprs[2].fields = <<as_name("x"), as_name("x")>>
    /\ LitVariant = Some(EBId)
    /\ LitResult # <<>>
    /\ LitResult[1].missed_fields = <<0>>
    /\ body.pats[1] = Pat_Record(<<>>)
    /\ PatVariant = Some(PointId)
    /\ PatResult # <<>>
    /\ PatResult[1].missed_fields = <<0, 1>>

\* the list m is not empty, has no id twice and holds only ids of the fields
\* variant declares
IsValidIdList(m, variant) ==
    /\ m # <<>>
    /\ \A j \in 1..Len(m) : \A k \in 1..Len(m) : j # k => m[j] # m[k]
    /\ \A k \in 1..Len(m) :
        /\ m[k] >= 0
        /\ m[k] < Len(DeclaredNames(variant))
        /\ m[k] \in ArenaIds(VariantData_fields(variant_data(variant)))

\* C28: a result Some(..) of either function carries a non-empty list of
\* ids, none twice, each an index of the field arena of the variant it
\* returns.
C28_MissingIdsAreValid ==
    /\ (LitAsked /\ LitResult # <<>>) =>
            IsValidIdList(LitResult[1].missed_fields, LitResult[1].variant_def)
    /\ (PatAsked /\ PatResult # <<>>) =>
            IsValidIdList(PatResult[1].missed_fields, PatResult[1].variant_def)

\* Point { } and the pattern E::B { x }: ids 0, 1 of Point and id 0 of B
C28_Witness ==
    /\ LitAsked
    /\ PatAsked
    /\ LitVariant = Some(PointId)
    /\ LitResult # <<>>
    /\ LitResult[1].variant_def = PointId
    /\ LitResult[1].missed_fields = <<0, 1>>
    /\ PatVariant = Some(EBId)
    /\ PatResult # <<>>
    /\ PatResult[1].variant_def = EBId
    /\ PatResult[1].missed_fields = <<0>>

----------------------------------------------------------------------------
(* Properties of the tail check *)

BlockMismatch == infer.type_mismatches[body.body_expr + 1]

\* C24: the tail check reads the mismatch recorded for the root block: with
\* none recorded there nothing is emitted, whatever is recorded for the tail
\* expression; with one recorded there, its expected and actual types decide,
\* and the diagnostic is anchored at the tail expression.
C24_TailCheckKeyedOnBlockMismatch ==
    (validated /\ TailChecked) =>
        /\ BlockMismatch = <<>> => MissingOks = {}
        /\ MissingOks # {} =>
            /\ BlockMismatch # <<>>
            /\ BlockMismatch[1].expected.tag = "Apply"
            /\ Len(BlockMismatch[1].expected.parameters) = 2
            /\ BlockMismatch[1].expected.parameters[1] = BlockMismatch[1].actual
            /\ \A k \in MissingOks :
                /\ sink[k].ptr.of = source_map[TailId + 1].node
                /\ sink[k].ptr.of # source_map[body.body_expr + 1].node
        /\ (MissingOkDue /\ infer.type_mismatches[TailId + 1] = <<>>) => MissingOks # {}

\* the mismatch against Result<i32, bool> is recorded for the tail only
C24_Witness ==
    /\ validated
    /\ TailChecked
    /\ BlockMismatch = <<>>
    /\ infer.type_mismatches[TailId + 1] = Some(OkMismatch)
    /\ resolver # <<>>
    /\ source_map[TailId + 1].ok
    /\ source_map[TailId + 1].side = "Left"
    /\ sink = <<>>

\* C25: a run emits at most one MissingOkInTailExpr, and none when the root
\* of the body is not a block or is a block without a tail expression, even
\* if a mismatch against Result is recorded for the root.
C25_TailCheckAtMostOnce ==
    validated =>
        /\ Cardinality(MissingOks) <= 1
        /\ ~TailChecked => MissingOks = {}

\* the root is a block without a tail and carries the mismatch
C25_Witness ==
    /\ validated
    /\ body.exprs[body.body_expr + 1] = Expr_Block(None)
    /\ BlockMismatch = Some(OkMismatch)
    /\ resolver # <<>>
    /\ sink = <<>>

----------------------------------------------------------------------------
(* Properties of enum variants and of the shape tag *)

\* C26: for an enum, the variant source map has an entry for every index of
\* EnumData.variants, entry i being the i-th variant node, from which
\* variants[i] was built; and the field source map of variant i is the walk
\* of that node's field list, aligned with the fields of variants[i].
C26_VariantSourceFound ==
    \A r \in Runs :
        (src.def = "enum" /\ IsSome(data[r])) =>
            LET variants == Unwrap(data[r]).variants IN
            /\ VariantSourceKnown =>
                LET map == Unwrap(childSrc).map IN
                /\ ArenaIds(variants) \subseteq DOMAIN map
                /\ \A i \in ArenaIds(variants) :
                    /\ map[i] = src.variant_list[1][i + 1]
                    /\ variants[i + 1].name = LoweredName(map[i].name)
                    /\ variants[i + 1].variant_data.tag = map[i].kind.tag
            /\ (FieldSourceKnown /\ Unwrap(childSrc).id.tag = "EnumVariantId") =>
                LET map == Unwrap(childSrc).map
                    i == Unwrap(childSrc).id.local_id
                    fl == src.variant_list[1][i + 1].kind.fields
                    arena == VariantData_fields(variants[i + 1].variant_data)
                IN  /\ DOMAIN map = ArenaIds(arena)
                    /\ Len(arena) = Len(fl)
                    /\ \A k \in DOMAIN map :
                        /\ map[k].node = fl[k + 1]
                        /\ BuiltFrom(arena[k + 1], map[k], k)

\* enum E { _, V { .. } }: the fields of the second variant, which differ
\* from those of the first
C26_Witness ==
    /\ src.def = "enum"
    /\ IsSome(src.variant_list)
    /\ Len(Unwrap(src.variant_list)) = 2
    /\ Unwrap(src.variant_list)[1].kind.tag = "Tuple"
    /\ Unwrap(src.variant_list)[2].kind.tag = "Record"
    /\ Len(Unwrap(src.variant_list)[2].kind.fields) = 1
    /\ IsSome(data[1])
    /\ FieldSourceKnown
    /\ Unwrap(childSrc).id = [tag |-> "EnumVariantId", local_id |-> 1]
    /\ DOMAIN Unwrap(childSrc).map = {0}

\* C27: the shape follows the syntactic form of the field list, not the
\* number of fields: kind() answers Record for a record list, Tuple for a
\* tuple list and Unit for no list, and for a list without fields, as for
\* no list, fields() is empty.
C27_ShapeFollowsSyntax ==
    IsSome(found) =>
        LET kind == SyntaxKindOf(src, Unwrap(found).id)
            vd == VariantDataOf(Unwrap(data[1]), Unwrap(found).id)
        IN  /\ Unwrap(found).kind = kind.tag
            /\ vd.tag = kind.tag
            /\ Len(Unwrap(found).fields) = Len(kind.fields)
            /\ kind.fields = <<>> => Unwrap(found).fields = <<>>

\* struct S { }: a record list without fields
C27_Witness ==
    /\ src.def = "struct"
    /\ src.kind.tag = "Record"
    /\ src.kind.fields = <<>>
    /\ IsSome(found)
    /\ Unwrap(found).kind = "Record"
    /\ Unwrap(found).fields = <<>>

----------------------------------------------------------------------------
(* Properties of the indentation *)

RECURSIVE NodeText(_)
NodeText(node) ==
    IF node = <<>> THEN <<>> ELSE Head(node).text \o NodeText(Tail(node))

HasNewline(token) == \E i \in 1..Len(token.text) : token.text[i] = "\n"

\* C22: increase_indent at level L appends 4 * L spaces to every whitespace
\* token that has a newline in it, and leaves every other token, and every
\* whitespace token without a newline, as it was.
C22_IncreaseIndentAppendsSpaces ==
    edit.step = "increased" =>
        /\ Len(edit.node) = Len(edit.orig)
        /\ \A i \in 1..Len(edit.orig) :
            IF edit.orig[i].kind = "WHITESPACE" /\ HasNewline(edit.orig[i])
            THEN /\ edit.node[i].kind = "WHITESPACE"
                 /\ Len(edit.node[i].text) = Len(edit.orig[i].text) + 4 * edit.level
                 /\ \A k \in 1..Len(edit.node[i].text) :
                        edit.node[i].text[k] =
                            IF k <= Len(edit.orig[i].text) THEN edit.orig[i].text[k]
                            ELSE " "
            ELSE edit.node[i] = edit.orig[i]

\* an arm list indented at 4 and 0 spaces is indented at 12 and 8 spaces
\* after increase_indent at level 2
C22_Witness ==
    /\ edit.step = "increased"
    /\ edit.level = 2
    /\ edit.orig[2].text = <<"\n", " ", " ", " ", " ">>
    /\ edit.orig[4].text = <<"\n">>
    /\ edit.node[2].text = <<"\n">> \o [k \in 1..12 |-> " "]
    /\ edit.node[4].text = <<"\n">> \o [k \in 1..8 |-> " "]
    /\ edit.node[3] = edit.orig[3]

\* C29: decrease_indent at level L applied to the result of increase_indent
\* at level L gives a node with the text of the original node.
C29_IndentRoundTrip ==
    edit.step = "restored" => NodeText(edit.node) = NodeText(edit.orig)

====
